---- MODULE Spec2Model ----
(***************************************************************************)
(* Transaction assembly and fee estimation of the easymint token tools.    *)
(*                                                                         *)
(* Part 1 models the library src/lib/createTokenWithUpload.ts: one call of *)
(* createToken, createUltraCheapToken, estimateCreateTokenFee or           *)
(* estimateUltraCheapTokenFee at a time, one step per await, with the      *)
(* ledger's and the upload service's answers chosen nondeterministically.  *)
(* The later parts model the React components that drive the library and   *)
(* the mint, revoke and freeze tools.                                      *)
(***************************************************************************)
EXTENDS Integers, Sequences, FiniteSets, TLC

\* ---------------------------------------------------------------- bounds
MaxDecimals == 2      \* decimals range over 0..MaxDecimals (the forms allow 0..9)
MaxSupply == 2        \* supply ranges over 1..MaxSupply
MintRentLamports == 3       \* the ledger's rent schedule: a mint account,
TokenAccountRentLamports == 5     \* a token account (AccountLayout.span),
MetadataRentLamports == 7   \* a 607-byte metadata account
MaxFee == 1           \* a fee quoted by the ledger is in 1..MaxFee
MaxCalls == 1         \* library calls (fresh mint keypairs) per behaviour
MaxEstimates == 2     \* estimateFee invocations per behaviour of a creator
MaxSubmits == 2       \* onSubmit / handleConfirm invocations per behaviour
MaxBalance == 20000000  \* the largest wallet balance the ledger reports
MaxToolSubmits == 1    \* onSubmit invocations per behaviour of a tool
MaxPending == 2        \* fetches of a tool that have not settled
MaxBurnBalance == 2    \* the largest raw balance of a token account

\* ------------------------------------------------------- program constants
MetaplexProtocolFee == 10000000   \* 0.01 * 1000000000 lamports
BalanceBuffer == 1000000          \* 0.001 * LAMPORTS_PER_SOL

\* ------------------------------------------------------------ value sets
publicKey == "wallet"             \* the connected wallet, payer of every call

None == [some |-> FALSE, v |-> 0]
Some(n) == [some |-> TRUE, v |-> n]

\* JavaScript's ToNumber in `a + b`: null counts as 0.
ToNumber(o) == IF o.some THEN o.v ELSE 0

RECURSIVE Pow10(_)
Pow10(d) == IF d = 0 THEN 1 ELSE 10 * Pow10(d - 1)

CoinFormData ==
    [decimals : 0..MaxDecimals, supply : 1..MaxSupply,
     revokeMintAuthority : BOOLEAN, revokeFreezeAuthority : BOOLEAN]

PlaceholderUri == [kind |-> "placeholder", mintId |-> 0]
UploadedUri(mint) == [kind |-> "uploaded", mintId |-> mint]
EmptyUri == [kind |-> "empty", mintId |-> 0]

\* --------------------------------------------------- instruction builders
SystemProgramCreateAccount(from, newAccount, lamports) ==
    [type |-> "CreateAccount", mint |-> newAccount, payer |-> from,
     lamports |-> lamports, signers |-> {from, "mintKeypair"}]

createInitializeMintInstruction(mint, decimals, mintAuthority, freezeAuthority) ==
    [type |-> "InitializeMint", mint |-> mint, decimals |-> decimals,
     mintAuthority |-> mintAuthority, freezeAuthority |-> freezeAuthority,
     signers |-> {}]

createCreateMetadataAccountV3Instruction(mint, authority, uri) ==
    [type |-> "CreateMetadata", mint |-> mint, mintAuthority |-> authority,
     payer |-> authority, updateAuthority |-> authority, uri |-> uri,
     signers |-> {authority}]

createAssociatedTokenAccountInstruction(payer, owner, mint) ==
    [type |-> "CreateAssociatedAccount", mint |-> mint, owner |-> owner,
     payer |-> payer, signers |-> {payer}]

createMintToInstruction(mint, owner, authority, amount) ==
    [type |-> "MintTo", mint |-> mint, owner |-> owner,
     authority |-> authority, amount |-> amount, signers |-> {authority}]

createSetAuthorityInstruction(mint, currentAuthority, authorityType) ==
    [type |-> "SetAuthority", mint |-> mint, kind |-> authorityType,
     currentAuthority |-> currentAuthority, newAuthority |-> "null",
     signers |-> {currentAuthority}]

createFreezeAccountInstruction(mint, owner, authority) ==
    [type |-> "FreezeAccount", mint |-> mint, owner |-> owner,
     authority |-> authority, signers |-> {authority}]

createThawAccountInstruction(mint, owner, authority) ==
    [type |-> "ThawAccount", mint |-> mint, owner |-> owner,
     authority |-> authority, signers |-> {authority}]

\* The sequence of instruction types of a transaction: its shape.
Types(tx) == [i \in 1..Len(tx) |-> tx[i].type]

\* supply * Math.pow(10, decimals)
MintAmount(d) == d.supply * Pow10(d.decimals)

\* message.header.numRequiredSignatures: the fee payer and every signer of
\* every instruction, counted once each.
NumRequiredSignatures(tx) ==
    Cardinality({publicKey} \cup UNION {tx[i].signers : i \in 1..Len(tx)})

\* ------------------------------------------------- transaction assembly
RevokeMintPart(d, mint) ==
    IF d.revokeMintAuthority
    THEN <<createSetAuthorityInstruction(mint, publicKey, "MintTokens")>>
    ELSE <<>>

RevokeFreezePart(d, mint) ==
    IF d.revokeFreezeAuthority
    THEN <<createSetAuthorityInstruction(mint, publicKey, "FreezeAccount")>>
    ELSE <<>>

\* A createToken that revokes the freeze authority before the mint authority.
CreateTokenTransactionSwapped(d, mint, rent, uri) ==
    << SystemProgramCreateAccount(publicKey, mint, rent),
       createInitializeMintInstruction(mint, d.decimals, publicKey, publicKey),
       createCreateMetadataAccountV3Instruction(mint, publicKey, uri),
       createAssociatedTokenAccountInstruction(publicKey, publicKey, mint),
       createMintToInstruction(mint, publicKey, publicKey, MintAmount(d)) >>
    \o RevokeFreezePart(d, mint) \o RevokeMintPart(d, mint)

\* createToken, steps 1 to 6
CreateTokenTransaction(d, mint, rent, uri) ==
    << SystemProgramCreateAccount(publicKey, mint, rent),
       createInitializeMintInstruction(mint, d.decimals, publicKey, publicKey),
       createCreateMetadataAccountV3Instruction(mint, publicKey, uri),
       createAssociatedTokenAccountInstruction(publicKey, publicKey, mint),
       createMintToInstruction(mint, publicKey, publicKey, MintAmount(d)) >>
    \o RevokeMintPart(d, mint) \o RevokeFreezePart(d, mint)

\* A createUltraCheapToken that honours the revoke flags of its input.
UltraCheapTransactionWithRevoke(d, mint, rent) ==
    << SystemProgramCreateAccount(publicKey, mint, rent),
       createInitializeMintInstruction(mint, d.decimals, publicKey, publicKey),
       createAssociatedTokenAccountInstruction(publicKey, publicKey, mint),
       createMintToInstruction(mint, publicKey, publicKey, MintAmount(d)) >>
    \o RevokeMintPart(d, mint) \o RevokeFreezePart(d, mint)

\* createUltraCheapToken, steps 1 to 4
UltraCheapTransaction(d, mint, rent) ==
    << SystemProgramCreateAccount(publicKey, mint, rent),
       createInitializeMintInstruction(mint, d.decimals, publicKey, publicKey),
       createAssociatedTokenAccountInstruction(publicKey, publicKey, mint),
       createMintToInstruction(mint, publicKey, publicKey, MintAmount(d)) >>

EstimateRevokeMintPart(d, mint) ==
    IF d.revokeMintAuthority
    THEN <<createSetAuthorityInstruction(mint, publicKey, "MintTokens")>>
    ELSE <<>>

\* An estimator that forgets the freeze-authority revocation.
EstimateRevokeFreezePartOmitted(d, mint) == <<>>

EstimateRevokeFreezePart(d, mint) ==
    IF d.revokeFreezeAuthority
    THEN <<createSetAuthorityInstruction(mint, publicKey, "FreezeAccount")>>
    ELSE <<>>

\* estimateCreateTokenFee, steps 1 to 6
EstimateCreateTokenTransaction(d, mint, rent) ==
    << SystemProgramCreateAccount(publicKey, mint, rent),
       createInitializeMintInstruction(mint, d.decimals, publicKey, publicKey),
       createCreateMetadataAccountV3Instruction(mint, publicKey, PlaceholderUri),
       createAssociatedTokenAccountInstruction(publicKey, publicKey, mint),
       createMintToInstruction(mint, publicKey, publicKey, MintAmount(d)) >>
    \o EstimateRevokeMintPart(d, mint) \o EstimateRevokeFreezePart(d, mint)

\* estimateUltraCheapTokenFee, steps 1 to 4
EstimateUltraCheapTransaction(d, mint, rent) ==
    << SystemProgramCreateAccount(publicKey, mint, rent),
       createInitializeMintInstruction(mint, d.decimals, publicKey, publicKey),
       createAssociatedTokenAccountInstruction(publicKey, publicKey, mint),
       createMintToInstruction(mint, publicKey, publicKey, MintAmount(d)) >>

\* A total that leaves the protocol fee out.
CreateTokenTotalFeeWithoutProtocolFee(mRent, tRent, mdRent, fee) ==
    ToNumber(mRent) + ToNumber(tRent) + ToNumber(mdRent) + ToNumber(fee)

\* mintRent + tokenAccountRent + metadataAccountRent + metaplexProtocolFee + fee
CreateTokenTotalFee(mRent, tRent, mdRent, fee) ==
    ToNumber(mRent) + ToNumber(tRent) + ToNumber(mdRent)
        + MetaplexProtocolFee + ToNumber(fee)

\* mintRent + tokenAccountRent + fee
UltraCheapTotalFee(mRent, tRent, fee) ==
    ToNumber(mRent) + ToNumber(tRent) + ToNumber(fee)

\* ----------------------------------------------------------------- state
VARIABLES
    fn,                   \* the library function running, or "none"
    pc,                   \* the await it is suspended at
    data,                 \* its request
    mintKeypair,          \* Keypair.generate(): the mint of this call
    keysGenerated,        \* keypairs generated so far
    hasGetFeeForMessage,  \* typeof connection.getFeeForMessage === 'function'
    mintRent, tokenAccountRent, metadataAccountRent,
    metadataUri,
    transaction,          \* the instructions added so far
    feeValue,             \* the network fee the ledger answered, if any
    ret,                  \* what the call returned or threw
    sent,                 \* the transactions handed to sendTransaction
    uploads               \* the mint ids createTokenMetadata was called with

libVars == <<fn, pc, data, mintKeypair, keysGenerated, hasGetFeeForMessage,
             mintRent, tokenAccountRent, metadataAccountRent, metadataUri,
             transaction, feeValue, ret, sent, uploads>>

\* The token creators (CoinCreator, UltraCheapTokenCreator): React state,
\* the debounce timer, and the asynchronous calls in progress.
VARIABLES
    variant,              \* "token": CoinCreator, "ultra": UltraCheapTokenCreator
    connected,            \* publicKey is not null
    form,                 \* the watched form values
    timerPending,         \* debounceTimerRef holds a timer that has not fired
    estimateCalls,        \* estimateFee invocations so far
    estimatesInFlight,    \* the estimator calls that have not settled
    estimatedFee, loadingFee, feeError,
    feeFrom,              \* the estimateFee invocation that last set estimatedFee
    isCreating, createdToken, showConfirmDialog, pendingFormData,
    submitCalls,          \* onSubmit / handleConfirm invocations so far
    handlers              \* the invocations that have not returned

creatorVars == <<variant, connected, form, timerPending, estimateCalls,
                 estimatesInFlight, estimatedFee, loadingFee, feeError, feeFrom,
                 isCreating, createdToken, showConfirmDialog, pendingFormData,
                 submitCalls, handlers>>

\* The tools (MintTokensClient, RevokeAuthoritiesClient, FreezeTokensClient):
\* the ledger they read and write, and the state of the mounted tool.
VARIABLES
    tool,                 \* the tool that is mounted, or "none"
    ledgerMints,          \* per mint: decimals, mintAuthority, freezeAuthority
    ledgerAccounts,       \* per (mint, owner): exists, frozen
    selectTokens,         \* the mints the token select offers
    toolForm,             \* the form values
    tokenInfo, accountInfo, error,
    isProcessing,         \* isMinting / isRevoking / isProcessing
    toolResult,           \* mintResult / revokeResult / freezeResult
    tokenFetches,         \* fetchTokenInfo calls that have not settled
    accountFetches,       \* fetchAccountInfo calls that have not settled
    handler,              \* the onSubmit invocation in progress
    toolSubmits,          \* onSubmit invocations so far
    toolSent              \* the transactions handed to sendTransaction

toolVars == <<tool, ledgerMints, ledgerAccounts, selectTokens, toolForm,
              tokenInfo, accountInfo, error, isProcessing, toolResult,
              tokenFetches, accountFetches, handler, toolSubmits, toolSent>>

\* What only the burn tool (BurnTokensClient) uses.
VARIABLES
    ledgerBalance,        \* per mint: the raw balance of the wallet's account
    userBalanceRaw,       \* tokenInfo.userBalanceRaw (0 while tokenInfo is null)
    burnAmount            \* the form's amount, in half raw units

burnVars == <<ledgerBalance, userBalanceRaw, burnAmount>>

\* What the ledger reports for the transaction that awaits confirmation.
VARIABLES
    confirmation          \* confirmation.value.err: "none" while nothing is
                          \* awaited, "ok" for null, "err" for an error

\* One evaluation of an amount expression in JavaScript numbers.
VARIABLES
    calc                  \* the expression, its operands and, once it is
                          \* evaluated, its value

\* One request to POST /api/upload.
VARIABLES
    upload                \* the request, where the handler is, the objects
                          \* it has written and its response

nonLibVars == <<creatorVars, toolVars, burnVars, confirmation, calc, upload>>
nonCreatorVars == <<libVars, toolVars, burnVars, confirmation, calc, upload>>
nonToolVars == <<libVars, creatorVars, burnVars, confirmation, calc, upload>>
nonBurnVars == <<libVars, creatorVars, confirmation, calc, upload>>

vars == <<libVars, creatorVars, toolVars, burnVars, confirmation, calc, upload>>

NoCalc == [op |-> "none"]

\* ------------------------------------------- the values the tools handle
MintAddrs == {"MintA", "MintB"}        \* the mints on the ledger
ValidAddrs == MintAddrs \cup {"NotAMint"}  \* well-formed addresses
FormAddrs == ValidAddrs \cup {"short"} \* what the user may type
Owners == {"wallet", "other"}          \* wallets: recipients and targets
AuthValues == {"wallet", "other", "null"}  \* an authority, or revoked

\* e.target.value.length > 32
Long(a) == a \in ValidAddrs \cup Owners

NoInfo ==
    [some |-> FALSE, address |-> "", decimals |-> 0,
     mintAuthority |-> "unset", freezeAuthority |-> "unset"]

NoAccountInfo == [some |-> FALSE, exists |-> FALSE, frozen |-> FALSE]

\* No balance anywhere.
NoBalances == [a \in MintAddrs |-> 0]

\* The form's default amount, 1 token, in half raw units of a mint with
\* MaxDecimals decimals.
DefaultBurnAmount == 2 * Pow10(MaxDecimals)

NoHandler ==
    [stage |-> "idle", data |-> [tokenAddress |-> ""], tx |-> <<>>,
     hadTokenInfo |-> FALSE]

DefaultToolForm ==
    [tokenAddress |-> "", targetAddress |-> "", action |-> "freeze",
     revokeMintAuthority |-> FALSE, revokeFreezeAuthority |-> FALSE]

ToolIdle ==
    /\ tool = "none"
    /\ ledgerMints = [a \in MintAddrs |->
         [decimals |-> 0, mintAuthority |-> "wallet", freezeAuthority |-> "wallet"]]
    /\ ledgerAccounts = [k \in MintAddrs \X Owners |->
         [exists |-> FALSE, frozen |-> FALSE]]
    /\ selectTokens = {}
    /\ toolForm = DefaultToolForm
    /\ tokenInfo = NoInfo
    /\ accountInfo = NoAccountInfo
    /\ error = ""
    /\ isProcessing = FALSE
    /\ toolResult = FALSE
    /\ tokenFetches = {}
    /\ accountFetches = {}
    /\ handler = NoHandler
    /\ toolSubmits = 0
    /\ toolSent = <<>>
    /\ ledgerBalance = NoBalances
    /\ userBalanceRaw = 0
    /\ burnAmount = DefaultBurnAmount

NoRet == [kind |-> "none", value |-> 0, message |-> ""]
Returned(v) == [kind |-> "ok", value |-> v, message |-> ""]
Thrown(m) == [kind |-> "error", value |-> 0, message |-> m]

DefaultData ==
    [decimals |-> 0, supply |-> 1,
     revokeMintAuthority |-> FALSE, revokeFreezeAuthority |-> FALSE]

\* No request has reached the upload endpoint.
NoUpload == [pc |-> "idle"]

LibInit ==
    /\ confirmation = "none"
    /\ calc = NoCalc
    /\ upload = NoUpload
    /\ fn = "none"
    /\ pc = "idle"
    /\ data = DefaultData
    /\ mintKeypair = 0
    /\ keysGenerated = 0
    /\ hasGetFeeForMessage \in BOOLEAN
    /\ mintRent = None
    /\ tokenAccountRent = None
    /\ metadataAccountRent = None
    /\ metadataUri = EmptyUri
    /\ transaction = <<>>
    /\ feeValue = None
    /\ ret = NoRet
    /\ sent = <<>>
    /\ uploads = {}

LibFunctions ==
    {"createToken", "createUltraCheapToken",
     "estimateCreateTokenFee", "estimateUltraCheapTokenFee"}

Estimators == {"estimateCreateTokenFee", "estimateUltraCheapTokenFee"}

\* A call starts: the mint keypair is generated and the first await is
\* getMinimumBalanceForRentExemptMint.
Call ==
    /\ pc \in {"idle", "done"}
    /\ keysGenerated < MaxCalls
    /\ \E f \in LibFunctions, d \in CoinFormData :
         /\ fn' = f
         /\ data' = d
    /\ mintKeypair' = keysGenerated + 1
    /\ keysGenerated' = keysGenerated + 1
    /\ pc' = "mintRent"
    /\ mintRent' = None
    /\ tokenAccountRent' = None
    /\ metadataAccountRent' = None
    /\ metadataUri' = EmptyUri
    /\ transaction' = <<>>
    /\ feeValue' = None
    /\ ret' = NoRet
    /\ UNCHANGED <<hasGetFeeForMessage, sent, uploads>>
    /\ UNCHANGED nonLibVars

\* Any await may reject: the call throws (the estimators rethrow from their
\* catch block, createToken has none around these awaits).
Throw(m) ==
    /\ pc' = "done"
    /\ ret' = Thrown(m)

\* A createToken that goes on to the blockhash without the upload.
NextAfterMintRentSkipsUpload ==
    CASE fn = "createUltraCheapToken" -> "getBalance"
      [] fn = "createToken" -> "blockhash"
      [] OTHER -> "tokenAccountRent"

NextAfterMintRent ==
    CASE fn = "createToken" -> "upload"
      [] fn = "createUltraCheapToken" -> "getBalance"
      [] OTHER -> "tokenAccountRent"

GetMintRent ==
    /\ pc = "mintRent"
    /\ \/ /\ mintRent' = Some(MintRentLamports)
          /\ pc' = NextAfterMintRent
          /\ UNCHANGED ret
       \/ /\ Throw("rent unavailable")
          /\ UNCHANGED mintRent
    /\ UNCHANGED <<fn, data, mintKeypair, keysGenerated, hasGetFeeForMessage,
                   tokenAccountRent, metadataAccountRent, metadataUri,
                   transaction, feeValue, sent, uploads>>
    /\ UNCHANGED nonLibVars

\* createToken only: createTokenMetadata uploads the metadata under the mint's
\* public key and returns its URI; a failure is rethrown and ends the call.
UploadMetadata ==
    /\ pc = "upload"
    /\ fn = "createToken"
    /\ uploads' = uploads \cup {mintKeypair}
    /\ \/ /\ metadataUri' = UploadedUri(mintKeypair)
          /\ pc' = "blockhash"
          /\ UNCHANGED ret
       \/ /\ Throw("Failed to create token metadata")
          /\ UNCHANGED metadataUri
    /\ UNCHANGED <<fn, data, mintKeypair, keysGenerated, hasGetFeeForMessage,
                   mintRent, tokenAccountRent, metadataAccountRent,
                   transaction, feeValue, sent>>
    /\ UNCHANGED nonLibVars

\* createUltraCheapToken only: connection.getBalance, whose value is logged
\* and not used.
GetBalance ==
    /\ pc = "getBalance"
    /\ fn = "createUltraCheapToken"
    /\ \/ /\ pc' = "blockhash"
          /\ UNCHANGED ret
       \/ Throw("balance unavailable")
    /\ UNCHANGED <<fn, data, mintKeypair, keysGenerated, hasGetFeeForMessage,
                   mintRent, tokenAccountRent, metadataAccountRent, metadataUri,
                   transaction, feeValue, sent, uploads>>
    /\ UNCHANGED nonLibVars

\* The estimators: connection.getMinimumBalanceForRentExemption(AccountLayout.span)
GetTokenAccountRent ==
    /\ pc = "tokenAccountRent"
    /\ fn \in Estimators
    /\ \/ /\ tokenAccountRent' = Some(TokenAccountRentLamports)
          /\ pc' = IF fn = "estimateCreateTokenFee"
                   THEN "metadataAccountRent" ELSE "blockhash"
          /\ UNCHANGED ret
       \/ /\ Throw("rent unavailable")
          /\ UNCHANGED tokenAccountRent
    /\ UNCHANGED <<fn, data, mintKeypair, keysGenerated, hasGetFeeForMessage,
                   mintRent, metadataAccountRent, metadataUri,
                   transaction, feeValue, sent, uploads>>
    /\ UNCHANGED nonLibVars

\* estimateCreateTokenFee: connection.getMinimumBalanceForRentExemption(607)
GetMetadataAccountRent ==
    /\ pc = "metadataAccountRent"
    /\ fn = "estimateCreateTokenFee"
    /\ \/ /\ metadataAccountRent' = Some(MetadataRentLamports)
          /\ pc' = "blockhash"
          /\ UNCHANGED ret
       \/ /\ Throw("rent unavailable")
          /\ UNCHANGED metadataAccountRent
    /\ UNCHANGED <<fn, data, mintKeypair, keysGenerated, hasGetFeeForMessage,
                   mintRent, tokenAccountRent, metadataUri,
                   transaction, feeValue, sent, uploads>>
    /\ UNCHANGED nonLibVars

\* The transaction each function assembles once it has the blockhash.
Assemble ==
    CASE fn = "createToken" ->
           CreateTokenTransaction(data, mintKeypair, mintRent.v, metadataUri)
      [] fn = "createUltraCheapToken" ->
           UltraCheapTransaction(data, mintKeypair, mintRent.v)
      [] fn = "estimateCreateTokenFee" ->
           EstimateCreateTokenTransaction(data, mintKeypair, mintRent.v)
      [] OTHER ->
           EstimateUltraCheapTransaction(data, mintKeypair, mintRent.v)

NextAfterBlockhash ==
    IF fn \in Estimators
    THEN (IF hasGetFeeForMessage THEN "getFeeForMessage" ELSE "feeCalculator")
    ELSE "send"

\* connection.getLatestBlockhash(), then the synchronous assembly.
GetLatestBlockhash ==
    /\ pc = "blockhash"
    /\ \/ /\ transaction' = Assemble
          /\ pc' = NextAfterBlockhash
          /\ UNCHANGED ret
       \/ /\ Throw("blockhash unavailable")
          /\ UNCHANGED transaction
    /\ UNCHANGED <<fn, data, mintKeypair, keysGenerated, hasGetFeeForMessage,
                   mintRent, tokenAccountRent, metadataAccountRent, metadataUri,
                   feeValue, sent, uploads>>
    /\ UNCHANGED nonLibVars

TotalFee(fee) ==
    IF fn = "estimateCreateTokenFee"
    THEN CreateTokenTotalFee(mintRent, tokenAccountRent, metadataAccountRent, fee)
    ELSE UltraCheapTotalFee(mintRent, tokenAccountRent, fee)

\* const { value } = await connection.getFeeForMessage(message): the ledger
\* answers a fee, or a null value (it no longer knows the blockhash), or the
\* request rejects.  The value goes into the sum unchecked.
GetFeeForMessage ==
    /\ pc = "getFeeForMessage"
    /\ fn \in Estimators
    /\ hasGetFeeForMessage
    /\ \/ /\ \E value \in {Some(f) : f \in 1..MaxFee} \cup {None} :
               /\ feeValue' = value
               /\ ret' = Returned(TotalFee(value))
          /\ pc' = "done"
       \/ /\ Throw("fee unavailable")
          /\ UNCHANGED feeValue
    /\ UNCHANGED <<fn, data, mintKeypair, keysGenerated, hasGetFeeForMessage,
                   mintRent, tokenAccountRent, metadataAccountRent, metadataUri,
                   transaction, sent, uploads>>
    /\ UNCHANGED nonLibVars

\* The fallback: connection.getFeeCalculatorForBlockhash(blockhash); a null
\* calculator throws, otherwise lamportsPerSignature * numRequiredSignatures.
GetFeeCalculator ==
    /\ pc = "feeCalculator"
    /\ fn \in Estimators
    /\ ~hasGetFeeForMessage
    /\ \/ /\ \E lamportsPerSignature \in 1..MaxFee :
               LET transactionFee ==
                     lamportsPerSignature * NumRequiredSignatures(transaction)
               IN /\ feeValue' = Some(transactionFee)
                  /\ ret' = Returned(TotalFee(Some(transactionFee)))
          /\ pc' = "done"
       \/ /\ Throw("Failed to fetch fee calculator for fee estimation")
          /\ UNCHANGED feeValue
       \/ /\ Throw("fee unavailable")
          /\ UNCHANGED feeValue
    /\ UNCHANGED <<fn, data, mintKeypair, keysGenerated, hasGetFeeForMessage,
                   mintRent, tokenAccountRent, metadataAccountRent, metadataUri,
                   transaction, sent, uploads>>
    /\ UNCHANGED nonLibVars

\* What the wallet or the network may answer to sendTransaction.
SendErrors == {"User rejected", "insufficient funds"}

\* createUltraCheapToken's catch block rewrites the messages it recognises.
UltraCheapErrorMessage(m) ==
    CASE m = "insufficient funds" ->
           "Insufficient funds to create token."
      [] m = "User rejected" -> "Transaction was rejected by user."
      [] m = "Transaction was not confirmed" ->
           "Transaction was not confirmed."
      [] OTHER -> m

CreatorThrow(m) ==
    Throw(IF fn = "createUltraCheapToken" THEN UltraCheapErrorMessage(m) ELSE m)

\* sendTransaction(transaction, connection, {signers: [mintKeypair]})
SendTransaction ==
    /\ pc = "send"
    /\ fn \in {"createToken", "createUltraCheapToken"}
    /\ sent' = Append(sent, transaction)
    /\ \/ /\ pc' = "confirm"
          /\ confirmation' \in {"ok", "err"}
          /\ UNCHANGED ret
       \/ /\ \E m \in SendErrors : CreatorThrow(m)
          /\ UNCHANGED confirmation
    /\ UNCHANGED <<fn, data, mintKeypair, keysGenerated, hasGetFeeForMessage,
                   mintRent, tokenAccountRent, metadataAccountRent, metadataUri,
                   transaction, feeValue, uploads>>
    /\ UNCHANGED <<creatorVars, toolVars, burnVars, calc, upload>>

\* connection.confirmTransaction: the response carries what the ledger
\* reports, or the wait rejects.  Only createUltraCheapToken reads
\* confirmation.value.err.
ConfirmTransaction ==
    /\ pc = "confirm"
    /\ fn \in {"createToken", "createUltraCheapToken"}
    /\ \/ /\ pc' = "done"
          /\ ret' = IF confirmation = "err" /\ fn = "createUltraCheapToken"
                    THEN Thrown("Transaction failed")
                    ELSE Returned(mintKeypair)
       \/ CreatorThrow("Transaction was not confirmed")
    /\ confirmation' = "none"
    /\ UNCHANGED <<fn, data, mintKeypair, keysGenerated, hasGetFeeForMessage,
                   mintRent, tokenAccountRent, metadataAccountRent, metadataUri,
                   transaction, feeValue, sent, uploads>>
    /\ UNCHANGED <<creatorVars, toolVars, burnVars, calc, upload>>

\* =====================================================================
\* Part 2: the token creators, CoinCreator and UltraCheapTokenCreator.
\* =====================================================================

\* The form's default values (decimals 9, supply 1000000) within the bounds.
DefaultFormValues ==
    [decimals |-> MaxDecimals, supply |-> MaxSupply,
     revokeMintAuthority |-> FALSE, revokeFreezeAuthority |-> FALSE]

\* The edits of the watched fields that are explored: in CoinCreator the two
\* revoke checkboxes, in UltraCheapTokenCreator (which has none) the decimals.
FormValues(v) ==
    IF v = "token"
    THEN {d \in CoinFormData :
            d.decimals = MaxDecimals /\ d.supply = MaxSupply}
    ELSE {d \in CoinFormData :
            /\ d.supply = MaxSupply
            /\ ~d.revokeMintAuthority /\ ~d.revokeFreezeAuthority}

CreatorIdle ==
    /\ variant = "token"
    /\ connected = FALSE
    /\ form = DefaultFormValues
    /\ timerPending = FALSE
    /\ estimateCalls = 0
    /\ estimatesInFlight = {}
    /\ estimatedFee = None
    /\ loadingFee = FALSE
    /\ feeError = FALSE
    /\ feeFrom = 0
    /\ isCreating = FALSE
    /\ createdToken = None
    /\ showConfirmDialog = FALSE
    /\ pendingFormData = {}
    /\ submitCalls = 0
    /\ handlers = {}

\* After the first render: the state hooks hold their initial values and the
\* debounce effect has set its first timer.
CreatorInit ==
    /\ variant \in {"token", "ultra"}
    /\ connected \in BOOLEAN
    /\ form = DefaultFormValues
    /\ timerPending = TRUE
    /\ estimateCalls = 0
    /\ estimatesInFlight = {}
    /\ estimatedFee = None
    /\ loadingFee = FALSE
    /\ feeError = FALSE
    /\ feeFrom = 0
    /\ isCreating = FALSE
    /\ createdToken = None
    /\ showConfirmDialog = FALSE
    /\ pendingFormData = {}
    /\ submitCalls = 0
    /\ handlers = {}

\* The debounce effect: it runs whenever estimateFee changes identity, clears
\* the timer it holds and sets a new one.
DebounceEffect == timerPending' = TRUE

\* The user edits a watched field.  The form is rendered (and editable)
\* whenever no created token is displayed; isCreating does not disable it.
ChangeInput ==
    /\ ~createdToken.some
    /\ \E d \in FormValues(variant) \ {form} : form' = d
    /\ DebounceEffect
    /\ UNCHANGED <<variant, connected, estimateCalls, estimatesInFlight,
                   estimatedFee, loadingFee, feeError, feeFrom, isCreating,
                   createdToken, showConfirmDialog, pendingFormData,
                   submitCalls, handlers>>
    /\ UNCHANGED nonCreatorVars

\* The wallet connects or disconnects: publicKey is a dependency of
\* estimateFee, so the effect runs.
WalletChange ==
    /\ connected' = ~connected
    /\ DebounceEffect
    /\ UNCHANGED <<variant, form, estimateCalls, estimatesInFlight,
                   estimatedFee, loadingFee, feeError, feeFrom, isCreating,
                   createdToken, showConfirmDialog, pendingFormData,
                   submitCalls, handlers>>
    /\ UNCHANGED nonCreatorVars

\* The timer fires and calls estimateFee, up to its first await.
TimerFires ==
    /\ timerPending
    /\ estimateCalls < MaxEstimates
    /\ timerPending' = FALSE
    /\ estimateCalls' = estimateCalls + 1
    /\ IF ~connected
       THEN /\ estimatedFee' = None
            /\ feeError' = FALSE
            /\ feeFrom' = estimateCalls + 1
            /\ UNCHANGED <<loadingFee, estimatesInFlight>>
       ELSE /\ loadingFee' = TRUE
            /\ feeError' = FALSE
            /\ estimatesInFlight' =
                 estimatesInFlight \cup {[id |-> estimateCalls + 1, data |-> form]}
            /\ UNCHANGED <<estimatedFee, feeFrom>>
    /\ UNCHANGED <<variant, connected, form, isCreating, createdToken,
                   showConfirmDialog, pendingFormData, submitCalls, handlers>>
    /\ UNCHANGED nonCreatorVars

\* What the estimator of the mounted creator returns once the ledger has
\* answered its rent requests and its fee request with `fee`.
EstimatedTotal(v, fee) ==
    IF v = "token"
    THEN CreateTokenTotalFee(Some(MintRentLamports), Some(TokenAccountRentLamports),
                             Some(MetadataRentLamports), fee)
    ELSE UltraCheapTotalFee(Some(MintRentLamports), Some(TokenAccountRentLamports),
                            fee)

FeeAnswers == {Some(f) : f \in 1..MaxFee} \cup {None}

\* An estimator call settles: estimateFee resumes after its await, in the
\* try block (a fee) or the catch block (a throw), then the finally block.
EstimateSettles ==
    /\ \E r \in estimatesInFlight :
         /\ estimatesInFlight' = estimatesInFlight \ {r}
         /\ feeFrom' = r.id
         /\ \/ /\ \E fee \in FeeAnswers :
                    estimatedFee' = Some(EstimatedTotal(variant, fee))
               /\ UNCHANGED feeError
            \/ /\ estimatedFee' = None
               /\ feeError' = TRUE
    /\ loadingFee' = FALSE
    /\ UNCHANGED <<variant, connected, form, timerPending, estimateCalls,
                   isCreating, createdToken, showConfirmDialog,
                   pendingFormData, submitCalls, handlers>>
    /\ UNCHANGED nonCreatorVars

\* The create button: disabled={!publicKey || isCreating || loadingFee || feeError},
\* rendered with the form.
CreateButtonEnabled ==
    /\ connected
    /\ ~isCreating
    /\ ~loadingFee
    /\ ~feeError
    /\ ~createdToken.some

\* if (estimatedFee): a number other than 0.
Truthy(fee) == fee.some /\ fee.v # 0

\* The part of onSubmit (ultra) and handleConfirm (token) up to the first
\* await: with an estimate, connection.getBalance is awaited; without one,
\* the handler goes straight on to setIsCreating(true) and the create call.
BeginCreate(d) ==
    /\ submitCalls' = submitCalls + 1
    /\ IF Truthy(estimatedFee)
       THEN /\ handlers' = handlers \cup
                 {[id |-> submitCalls + 1, stage |-> "getBalance", data |-> d,
                   fee |-> estimatedFee.v]}
            /\ UNCHANGED <<isCreating, createdToken>>
       ELSE /\ handlers' = handlers \cup
                 {[id |-> submitCalls + 1, stage |-> "prepare", data |-> d,
                   fee |-> 0]}
            /\ isCreating' = TRUE
            /\ createdToken' = None

\* The form is submitted.  CoinCreator.onSubmit stores the data and opens the
\* confirmation dialog; UltraCheapTokenCreator.onSubmit starts the creation.
Submit ==
    /\ CreateButtonEnabled
    /\ submitCalls < MaxSubmits
    /\ IF variant = "token"
       THEN /\ pendingFormData' = {form}
            /\ showConfirmDialog' = TRUE
            /\ UNCHANGED <<submitCalls, handlers, isCreating, createdToken>>
       ELSE /\ BeginCreate(form)
            /\ UNCHANGED <<pendingFormData, showConfirmDialog>>
    /\ UNCHANGED <<variant, connected, form, timerPending, estimateCalls,
                   estimatesInFlight, estimatedFee, loadingFee, feeError, feeFrom>>
    /\ UNCHANGED nonCreatorVars

\* "Create Token" in the confirmation dialog: the dialog's action button
\* closes the dialog and calls handleConfirm.
Confirm ==
    /\ variant = "token"
    /\ showConfirmDialog
    /\ submitCalls < MaxSubmits
    /\ showConfirmDialog' = FALSE
    /\ IF pendingFormData = {} \/ ~connected
       THEN UNCHANGED <<submitCalls, handlers, isCreating, createdToken>>
       ELSE \E d \in pendingFormData : BeginCreate(d)
    /\ UNCHANGED <<variant, connected, form, timerPending, estimateCalls,
                   estimatesInFlight, estimatedFee, loadingFee, feeError, feeFrom,
                   pendingFormData>>
    /\ UNCHANGED nonCreatorVars

\* The dialog is dismissed: onOpenChange(false).
CancelDialog ==
    /\ variant = "token"
    /\ showConfirmDialog
    /\ showConfirmDialog' = FALSE
    /\ UNCHANGED <<variant, connected, form, timerPending, estimateCalls,
                   estimatesInFlight, estimatedFee, loadingFee, feeError, feeFrom,
                   isCreating, createdToken, pendingFormData, submitCalls,
                   handlers>>
    /\ UNCHANGED nonCreatorVars

\* connection.getBalance settles: too little, or a rejection, ends the
\* handler; otherwise it sets isCreating and calls the create function.
BalanceSettles ==
    /\ \E h \in handlers :
         /\ h.stage = "getBalance"
         /\ \/ /\ \E balance \in {0, MaxBalance} :
                    balance < h.fee + BalanceBuffer
               /\ handlers' = handlers \ {h}
               /\ UNCHANGED <<isCreating, createdToken>>
            \/ /\ handlers' = handlers \ {h}
               /\ UNCHANGED <<isCreating, createdToken>>
            \/ /\ \E balance \in {0, MaxBalance} :
                    ~(balance < h.fee + BalanceBuffer)
               /\ handlers' = (handlers \ {h}) \cup {[h EXCEPT !.stage = "prepare"]}
               /\ isCreating' = TRUE
               /\ createdToken' = None
    /\ UNCHANGED <<variant, connected, form, timerPending, estimateCalls,
                   estimatesInFlight, estimatedFee, loadingFee, feeError, feeFrom,
                   showConfirmDialog, pendingFormData, submitCalls>>
    /\ UNCHANGED nonCreatorVars

\* The catch and finally blocks of a handler whose create call threw.
CreateFails(h) ==
    /\ handlers' = handlers \ {h}
    /\ isCreating' = FALSE
    /\ pendingFormData' = {}
    /\ UNCHANGED <<form, timerPending, createdToken>>

\* The create call's awaits before sendTransaction (rent, upload or balance,
\* blockhash) settle: the transaction is dispatched, or the call throws.
CreateDispatches ==
    /\ \E h \in handlers :
         /\ h.stage = "prepare"
         /\ \/ /\ handlers' = (handlers \ {h}) \cup {[h EXCEPT !.stage = "send"]}
               /\ UNCHANGED <<isCreating, pendingFormData, form, timerPending,
                              createdToken>>
            \/ CreateFails(h)
    /\ UNCHANGED <<variant, connected, estimateCalls, estimatesInFlight,
                   estimatedFee, loadingFee, feeError, feeFrom,
                   showConfirmDialog, submitCalls>>
    /\ UNCHANGED nonCreatorVars

\* sendTransaction settles: a signature, or a rejection.
SendSettles ==
    /\ \E h \in handlers :
         /\ h.stage = "send"
         /\ \/ /\ handlers' = (handlers \ {h}) \cup {[h EXCEPT !.stage = "confirm"]}
               /\ UNCHANGED <<isCreating, pendingFormData, form, timerPending,
                              createdToken>>
            \/ CreateFails(h)
    /\ UNCHANGED <<variant, connected, estimateCalls, estimatesInFlight,
                   estimatedFee, loadingFee, feeError, feeFrom,
                   showConfirmDialog, submitCalls>>
    /\ UNCHANGED nonCreatorVars

\* confirmTransaction settles.  On success the handler shows the token and
\* resets the form (which runs the debounce effect if a watched value
\* changes); either way the finally block clears isCreating.
ConfirmSettles ==
    /\ \E h \in handlers :
         /\ h.stage = "confirm"
         /\ \/ /\ \E err \in BOOLEAN : ~(err /\ variant = "ultra")
               /\ handlers' = handlers \ {h}
               /\ createdToken' = Some(h.id)
               /\ form' = DefaultFormValues
               /\ timerPending' = (timerPending \/ form # DefaultFormValues)
               /\ isCreating' = FALSE
               /\ pendingFormData' = {}
            \/ CreateFails(h)
    /\ UNCHANGED <<variant, connected, estimateCalls, estimatesInFlight,
                   estimatedFee, loadingFee, feeError, feeFrom,
                   showConfirmDialog, submitCalls>>
    /\ UNCHANGED nonCreatorVars

\* "Create another": resetForm.
ResetForm ==
    /\ createdToken.some
    /\ createdToken' = None
    /\ form' = DefaultFormValues
    /\ timerPending' = (timerPending \/ form # DefaultFormValues)
    /\ UNCHANGED <<variant, connected, estimateCalls, estimatesInFlight,
                   estimatedFee, loadingFee, feeError, feeFrom, isCreating,
                   showConfirmDialog, pendingFormData, submitCalls, handlers>>
    /\ UNCHANGED nonCreatorVars

LibIdle ==
    /\ LibInit
    /\ hasGetFeeForMessage = TRUE

InitCreator == LibIdle /\ CreatorInit /\ ToolIdle

NextCreator ==
    \/ ChangeInput
    \/ WalletChange
    \/ TimerFires
    \/ EstimateSettles
    \/ Submit
    \/ Confirm
    \/ CancelDialog
    \/ BalanceSettles
    \/ CreateDispatches
    \/ SendSettles
    \/ ConfirmSettles
    \/ ResetForm

SpecCreator == InitCreator /\ [][NextCreator]_vars

\* =====================================================================
\* Part 3: the mint, revoke and freeze tools.
\* =====================================================================

\* The token account of owner o for mint a as getAccount finds it.
AccountOnLedger(a, o) ==
    IF a \in MintAddrs /\ o \in Owners
    THEN ledgerAccounts[<<a, o>>]
    ELSE [exists |-> FALSE, frozen |-> FALSE]

\* The authority a tool is about.
RequiredAuthority(m) ==
    IF tool = "freeze" THEN m.freezeAuthority ELSE m.mintAuthority

\* After the first render of a tool: empty form, nothing resolved; the token
\* select has listed the mints the wallet holds tokens of and whose authority
\* it holds.
ToolMounted(t) ==
    /\ tool = t
    /\ selectTokens = {a \in MintAddrs :
                          /\ RequiredAuthority(ledgerMints[a]) = publicKey
                          /\ ledgerAccounts[<<a, publicKey>>].exists}
    /\ toolForm = DefaultToolForm
    /\ tokenInfo = NoInfo
    /\ accountInfo = NoAccountInfo
    /\ error = ""
    /\ isProcessing = FALSE
    /\ toolResult = FALSE
    /\ tokenFetches = {}
    /\ accountFetches = {}
    /\ handler = NoHandler
    /\ toolSubmits = 0
    /\ toolSent = <<>>
    /\ t # "burn" => ledgerBalance = NoBalances
    /\ userBalanceRaw = 0
    /\ burnAmount = DefaultBurnAmount

\* The error messages.
ErrNotAMint == "Invalid token address or not a token mint"
ErrNoMintAuthority ==
    "This token has no mint authority - cannot mint additional tokens"
ErrNotMintAuthority == "You are not the mint authority for this token"
ErrNoFreezeAuthority ==
    "This token has no freeze authority - cannot freeze/unfreeze accounts"
ErrNotFreezeAuthority == "You are not the freeze authority for this token"
ErrNoAuthorities == "You do not have mint or freeze authority for this token"
ErrFetchFailed == "Failed to fetch token info"
ErrSelectToken == "Please select a valid token first."
ErrRevokeNotMint == "You do not have mint authority for this token."
ErrRevokeNotFreeze == "You do not have freeze authority for this token."
ErrMintAlreadyRevoked ==
    "Mint authority has already been revoked for this token."
ErrFreezeAlreadyRevoked ==
    "Freeze authority has already been revoked for this token."
ErrAlreadyFrozen == "Cannot freeze account - it is already frozen."
ErrAlreadyUnfrozen == "Cannot unfreeze account - it is already unfrozen."
ErrNoAccount == "Cannot unfreeze account - it does not exist."
ErrThawNoAccount == "Cannot unfreeze - token account does not exist"
ErrInvalidToken == "Invalid token address"
ErrTransaction == "transaction failed"

\* fetchTokenInfo's checks on the parsed mint account, per tool: the error it
\* throws, or "" when it goes on to setTokenInfo.
TokenInfoError(a) ==
    IF a \notin MintAddrs THEN ErrNotAMint
    ELSE LET m == ledgerMints[a] IN
      CASE tool = "mint" ->
             IF m.mintAuthority = "null" THEN ErrNoMintAuthority
             ELSE IF m.mintAuthority # publicKey THEN ErrNotMintAuthority
             ELSE ""
        [] tool = "freeze" ->
             IF m.freezeAuthority = "null" THEN ErrNoFreezeAuthority
             ELSE IF m.freezeAuthority # publicKey THEN ErrNotFreezeAuthority
             ELSE ""
        [] tool = "burn" -> ""
        [] OTHER ->
             IF m.mintAuthority # publicKey /\ m.freezeAuthority # publicKey
             THEN ErrNoAuthorities
             ELSE ""

\* The object fetchTokenInfo passes to setTokenInfo: only the revoke tool
\* keeps the authorities.
FetchedInfo(a) ==
    [some |-> TRUE, address |-> a, decimals |-> ledgerMints[a].decimals,
     mintAuthority |->
        IF tool = "revoke" THEN ledgerMints[a].mintAuthority ELSE "unset",
     freezeAuthority |->
        IF tool = "revoke" THEN ledgerMints[a].freezeAuthority ELSE "unset"]

\* The object onTokenSelect passes to setTokenInfo: the select's entry; in
\* the revoke tool with its mint authority and freezeAuthority: undefined.
SelectedInfo(a) ==
    [some |-> TRUE, address |-> a, decimals |-> ledgerMints[a].decimals,
     mintAuthority |-> IF tool = "revoke" THEN publicKey ELSE "unset",
     freezeAuthority |-> "unset"]

\* The freeze tool's effect on [tokenInfo, tokenAddress, targetAddress]: when
\* a dependency has changed and all three are set, fetchAccountInfo starts; it
\* ends at once in setAccountInfo(null) when new PublicKey(tokenAddress)
\* throws. `changed` says that a dependency changed in this step, `info` is
\* the accountInfo the step leaves otherwise.
AccountEffect(changed, info) ==
    IF /\ tool = "freeze"
       /\ changed
       /\ tokenInfo'.some
       /\ toolForm'.tokenAddress # ""
       /\ Long(toolForm'.targetAddress)
    THEN IF toolForm'.tokenAddress \in ValidAddrs
         THEN /\ accountFetches' = accountFetches \cup
                   {<<toolForm'.tokenAddress, toolForm'.targetAddress>>}
              /\ accountInfo' = info
         ELSE /\ accountFetches' = accountFetches
              /\ accountInfo' = NoAccountInfo
    ELSE /\ accountFetches' = accountFetches
         /\ accountInfo' = info

\* The fetches in flight after a step stay within the bound.
PendingBound ==
    Cardinality(tokenFetches') + Cardinality(accountFetches') <= MaxPending

\* The form is rendered while no result is displayed.
FormShown == tool # "none" /\ ~toolResult

\* The user types a token address: field.onChange, and fetchTokenInfo when
\* the text is longer than 32 characters.
EditTokenAddress ==
    /\ FormShown
    /\ \E a \in FormAddrs \ {toolForm.tokenAddress} :
         /\ toolForm' = [toolForm EXCEPT !.tokenAddress = a]
         /\ tokenFetches' = IF Long(a) THEN tokenFetches \cup {a} ELSE tokenFetches
    /\ UNCHANGED tokenInfo
    /\ AccountEffect(TRUE, accountInfo)
    /\ UNCHANGED <<tool, ledgerMints, ledgerAccounts, selectTokens,
                   error, isProcessing, toolResult,
                   handler, toolSubmits, toolSent>>
    /\ PendingBound
    /\ UNCHANGED nonToolVars

\* The user picks a token in the select: onValueChange (field.onChange and
\* fetchTokenInfo), then onTokenSelect (setTokenInfo with the select's entry).
SelectToken ==
    /\ FormShown
    /\ \E a \in selectTokens :
         /\ toolForm' = [toolForm EXCEPT !.tokenAddress = a]
         /\ tokenFetches' = tokenFetches \cup {a}
         /\ tokenInfo' = SelectedInfo(a)
    /\ AccountEffect(TRUE, accountInfo)
    /\ UNCHANGED <<tool, ledgerMints, ledgerAccounts, selectTokens,
                   error, isProcessing, toolResult,
                   handler, toolSubmits, toolSent>>
    /\ PendingBound
    /\ UNCHANGED nonToolVars

\* The user types the recipient (mint tool) or target (freeze tool) address,
\* or presses "Use My Wallet".
EditTargetAddress ==
    /\ FormShown
    /\ tool \in {"mint", "freeze"}
    /\ \E o \in Owners \ {toolForm.targetAddress} :
         toolForm' = [toolForm EXCEPT !.targetAddress = o]
    /\ UNCHANGED tokenInfo
    /\ AccountEffect(TRUE, accountInfo)
    /\ UNCHANGED <<tool, ledgerMints, ledgerAccounts, selectTokens,
                   error, isProcessing, toolResult, tokenFetches,
                   handler, toolSubmits, toolSent>>
    /\ PendingBound
    /\ UNCHANGED nonToolVars

\* A fetchTokenInfo call settles: the request failed, or a check threw (the
\* catch block: setError, setTokenInfo(null), and in the freeze tool
\* setAccountInfo(null)), or the token is shown (setTokenInfo, setError(null)).
FetchTokenInfoSettles ==
    /\ tool # "none"
    /\ UNCHANGED toolForm
    /\ \E a \in tokenFetches :
         /\ tokenFetches' = tokenFetches \ {a}
         /\ \/ /\ TokenInfoError(a) = ""
               /\ tokenInfo' = FetchedInfo(a)
               /\ error' = ""
               /\ AccountEffect(TRUE, accountInfo)
            \/ /\ \E e \in {TokenInfoError(a), ErrFetchFailed} :
                    e # "" /\ error' = e
               /\ tokenInfo' = NoInfo
               /\ AccountEffect(FALSE, IF tool = "freeze" THEN NoAccountInfo
                                                        ELSE accountInfo)
    /\ UNCHANGED <<tool, ledgerMints, ledgerAccounts, selectTokens,
                   isProcessing, toolResult, handler, toolSubmits, toolSent>>
    /\ PendingBound
    /\ UNCHANGED nonToolVars

\* ------------------------------------------------------------ mint tool

\* The mint button: disabled={!publicKey || isMinting || !tokenInfo}; the
\* form resolver accepts well-formed addresses.
MintButtonEnabled ==
    /\ tool = "mint"
    /\ FormShown
    /\ ~isProcessing
    /\ tokenInfo.some
    /\ toolForm.tokenAddress \in ValidAddrs
    /\ toolForm.targetAddress \in Owners

\* MintTokensClient.onSubmit up to its first await (getParsedAccountInfo).
MintSubmit ==
    /\ MintButtonEnabled
    /\ toolSubmits < MaxToolSubmits
    /\ toolSubmits' = toolSubmits + 1
    /\ isProcessing' = TRUE
    /\ error' = ""
    /\ toolResult' = FALSE
    /\ handler' = [NoHandler EXCEPT !.stage = "mintInfo", !.data = toolForm]
    /\ UNCHANGED <<tool, ledgerMints, ledgerAccounts, selectTokens, toolForm,
                   tokenInfo, accountInfo, tokenFetches, accountFetches,
                   toolSent>>
    /\ UNCHANGED nonToolVars

\* An onSubmit without a finally block: the busy flag stays set.
HandlerThrowsStaysBusy(e) ==
    /\ error' = e
    /\ UNCHANGED isProcessing
    /\ handler' = NoHandler

\* The catch and finally blocks of an onSubmit whose try block threw.
HandlerThrows(e) ==
    /\ error' = e
    /\ isProcessing' = FALSE
    /\ handler' = NoHandler

\* getParsedAccountInfo settles: the decimals are read, or the address is
\* no parsed account and the handler throws.
MintReadsDecimals ==
    /\ tool = "mint"
    /\ handler.stage = "mintInfo"
    /\ \/ /\ handler.data.tokenAddress \in MintAddrs
          /\ handler' = [handler EXCEPT !.stage = "getAccount"]
          /\ UNCHANGED <<error, isProcessing>>
       \/ /\ handler.data.tokenAddress \notin MintAddrs
          /\ HandlerThrows(ErrInvalidToken)
       \/ HandlerThrows(ErrTransaction)
    /\ UNCHANGED <<tool, ledgerMints, ledgerAccounts, selectTokens, toolForm,
                   tokenInfo, accountInfo, toolResult, tokenFetches,
                   accountFetches, toolSubmits, toolSent>>
    /\ UNCHANGED nonToolVars

\* Math.floor(data.amount * Math.pow(10, decimals)) for the amount 1.
ToolMintAmount(a) == Pow10(ledgerMints[a].decimals)

\* The transaction of MintTokensClient.onSubmit: CreateAssociatedAccount when
\* getAccount threw, then MintTo.
MintTransaction(d, accountFound) ==
    (IF accountFound THEN <<>>
     ELSE <<createAssociatedTokenAccountInstruction(
              publicKey, d.targetAddress, d.tokenAddress)>>)
    \o <<createMintToInstruction(d.tokenAddress, d.targetAddress, publicKey,
                                 ToolMintAmount(d.tokenAddress))>>

\* getAccount settles (a rejected request counts as "no account"); the
\* transaction is assembled and handed to sendTransaction.
MintDispatches ==
    /\ tool = "mint"
    /\ handler.stage = "getAccount"
    /\ \E found \in {AccountOnLedger(handler.data.tokenAddress,
                                      handler.data.targetAddress).exists, FALSE} :
         LET tx == MintTransaction(handler.data, found)
         IN /\ handler' = [handler EXCEPT !.stage = "send", !.tx = tx]
            /\ toolSent' = Append(toolSent, tx)
    /\ UNCHANGED <<tool, ledgerMints, ledgerAccounts, selectTokens, toolForm,
                   tokenInfo, accountInfo, error, isProcessing, toolResult,
                   tokenFetches, accountFetches, toolSubmits>>
    /\ UNCHANGED nonToolVars

\* The token program's verdict on a transaction, instruction by
\* instruction: the ledger after it, or ok = FALSE when an instruction fails.
RECURSIVE Execute(_, _, _)
Execute(tx, mints, accounts) ==
    IF tx = <<>> THEN [ok |-> TRUE, mints |-> mints, accounts |-> accounts]
    ELSE IF Head(tx).mint \notin DOMAIN mints
      THEN [ok |-> FALSE, mints |-> mints, accounts |-> accounts]
    ELSE
      LET i == Head(tx)
          m == mints[i.mint]
          k == <<i.mint, i.owner>>
      IN CASE i.type = "CreateAssociatedAccount" ->
                IF accounts[k].exists
                THEN [ok |-> FALSE, mints |-> mints, accounts |-> accounts]
                ELSE Execute(Tail(tx), mints,
                       [accounts EXCEPT ![k] = [exists |-> TRUE, frozen |-> FALSE]])
           [] i.type = "MintTo" ->
                IF m.mintAuthority = i.authority /\ accounts[k].exists
                   /\ ~accounts[k].frozen
                THEN Execute(Tail(tx), mints, accounts)
                ELSE [ok |-> FALSE, mints |-> mints, accounts |-> accounts]
           [] i.type = "SetAuthority" ->
                IF i.kind = "MintTokens"
                THEN IF m.mintAuthority = i.currentAuthority
                     THEN Execute(Tail(tx),
                            [mints EXCEPT ![i.mint].mintAuthority = "null"], accounts)
                     ELSE [ok |-> FALSE, mints |-> mints, accounts |-> accounts]
                ELSE IF m.freezeAuthority = i.currentAuthority
                     THEN Execute(Tail(tx),
                            [mints EXCEPT ![i.mint].freezeAuthority = "null"], accounts)
                     ELSE [ok |-> FALSE, mints |-> mints, accounts |-> accounts]
           [] i.type = "FreezeAccount" ->
                IF m.freezeAuthority = i.authority /\ accounts[k].exists
                   /\ ~accounts[k].frozen
                THEN Execute(Tail(tx), mints,
                       [accounts EXCEPT ![k].frozen = TRUE])
                ELSE [ok |-> FALSE, mints |-> mints, accounts |-> accounts]
           [] OTHER ->  \* ThawAccount
                IF m.freezeAuthority = i.authority /\ accounts[k].exists
                   /\ accounts[k].frozen
                THEN Execute(Tail(tx), mints,
                       [accounts EXCEPT ![k].frozen = FALSE])
                ELSE [ok |-> FALSE, mints |-> mints, accounts |-> accounts]

\* sendTransaction settles: the wallet declines or the cluster rejects the
\* transaction (the handler throws), or a signature is returned and the
\* handler goes on to confirmTransaction; the ledger has then executed the
\* transaction, or has recorded it as failed.
ToolSendSettles ==
    /\ tool # "none"
    /\ handler.stage = "send"
    /\ LET r == Execute(handler.tx, ledgerMints, ledgerAccounts)
       IN \/ /\ r.ok
             /\ ledgerMints' = r.mints
             /\ ledgerAccounts' = r.accounts
             /\ confirmation' = "ok"
             /\ handler' = [handler EXCEPT !.stage = "confirm"]
             /\ UNCHANGED <<error, isProcessing>>
          \/ /\ confirmation' = "err"
             /\ handler' = [handler EXCEPT !.stage = "confirm"]
             /\ UNCHANGED <<ledgerMints, ledgerAccounts, error, isProcessing>>
          \/ /\ HandlerThrows(ErrTransaction)
             /\ UNCHANGED <<ledgerMints, ledgerAccounts, confirmation>>
    /\ UNCHANGED <<tool, selectTokens, toolForm, tokenInfo, accountInfo,
                   toolResult, tokenFetches, accountFetches, toolSubmits,
                   toolSent>>
    /\ UNCHANGED <<libVars, creatorVars, burnVars, calc, upload>>

\* confirmTransaction settles in the mint tool: it throws, or the result is
\* shown, the form reset and the token cleared; then the finally block.
MintConfirmSettles ==
    /\ tool = "mint"
    /\ handler.stage = "confirm"
    /\ confirmation' = "none"
    /\ \/ /\ toolResult' = TRUE
          /\ toolForm' = DefaultToolForm
          /\ tokenInfo' = NoInfo
          /\ isProcessing' = FALSE
          /\ handler' = NoHandler
          /\ UNCHANGED error
       \/ /\ HandlerThrows(ErrTransaction)
          /\ UNCHANGED <<toolResult, toolForm, tokenInfo>>
    /\ UNCHANGED <<tool, ledgerMints, ledgerAccounts, selectTokens,
                   accountInfo, tokenFetches, accountFetches, toolSubmits,
                   toolSent>>
    /\ UNCHANGED <<libVars, creatorVars, burnVars, calc, upload>>

\* "Mint More Tokens" / "Revoke More" / "Freeze More": the result is
\* dismissed and the form shown again.
DismissResult ==
    /\ tool # "none"
    /\ toolResult
    /\ toolResult' = FALSE
    /\ UNCHANGED <<tool, ledgerMints, ledgerAccounts, selectTokens, toolForm,
                   tokenInfo, accountInfo, error, isProcessing, tokenFetches,
                   accountFetches, handler, toolSubmits, toolSent>>
    /\ UNCHANGED nonToolVars

\* The ledgers a tool is checked on: the authorities of each mint, and the
\* state of each token account.
LedgerStates ==
    /\ ledgerMints \in [MintAddrs ->
         [decimals : {MaxDecimals}, mintAuthority : AuthValues,
          freezeAuthority : AuthValues]]
    /\ ledgerAccounts \in [MintAddrs \X Owners ->
         {[exists |-> FALSE, frozen |-> FALSE],
          [exists |-> TRUE, frozen |-> FALSE],
          [exists |-> TRUE, frozen |-> TRUE]}]

InitMint ==
    /\ LibIdle
    /\ CreatorIdle
    /\ LedgerStates
    /\ \A a \in MintAddrs : ledgerMints[a].freezeAuthority = "null"
    /\ ledgerMints["MintA"].mintAuthority = publicKey
    /\ \A k \in MintAddrs \X Owners :
         /\ ~ledgerAccounts[k].frozen
         /\ ledgerAccounts[k].exists = (k[1] = "MintB" \/ k[2] = publicKey)
    /\ ToolMounted("mint")

NextMint ==
    \/ EditTokenAddress
    \/ SelectToken
    \/ EditTargetAddress
    \/ FetchTokenInfoSettles
    \/ MintSubmit
    \/ MintReadsDecimals
    \/ MintDispatches
    \/ ToolSendSettles
    \/ MintConfirmSettles
    \/ DismissResult

SpecMint == InitMint /\ [][NextMint]_vars

\* Every promise onSubmit awaits settles: the RPC requests, the wallet's
\* sendTransaction and the confirmation resolve or reject.
MintFairness ==
    /\ WF_vars(MintReadsDecimals)
    /\ WF_vars(MintDispatches)
    /\ WF_vars(ToolSendSettles)
    /\ WF_vars(MintConfirmSettles)

SpecMintFair == SpecMint /\ MintFairness

\* ---------------------------------------------------------- revoke tool

\* !tokenInfo.mintAuthority: null and undefined are falsy.
Falsy(x) == x \in {"null", "unset"}

canRevokeMint == tokenInfo.some /\ tokenInfo.mintAuthority = publicKey
canRevokeFreeze == tokenInfo.some /\ tokenInfo.freezeAuthority = publicKey
mintAlreadyRevoked == tokenInfo.some /\ Falsy(tokenInfo.mintAuthority)
freezeAlreadyRevoked == tokenInfo.some /\ Falsy(tokenInfo.freezeAuthority)

\* The user clicks a checkbox; each is disabled unless the wallet holds the
\* authority of the token shown.
ToggleRevoke ==
    /\ tool = "revoke"
    /\ FormShown
    /\ \/ /\ canRevokeMint /\ ~mintAlreadyRevoked
          /\ toolForm' = [toolForm EXCEPT
                            !.revokeMintAuthority = ~toolForm.revokeMintAuthority]
       \/ /\ canRevokeFreeze /\ ~freezeAlreadyRevoked
          /\ toolForm' = [toolForm EXCEPT
                            !.revokeFreezeAuthority = ~toolForm.revokeFreezeAuthority]
    /\ UNCHANGED <<tool, ledgerMints, ledgerAccounts, selectTokens, tokenInfo,
                   accountInfo, error, isProcessing, toolResult, tokenFetches,
                   accountFetches, handler, toolSubmits, toolSent>>
    /\ UNCHANGED nonToolVars

\* The revoke button's disabled attribute, and the form resolver.
RevokeButtonEnabled ==
    /\ tool = "revoke"
    /\ FormShown
    /\ ~isProcessing
    /\ tokenInfo.some
    /\ toolForm.revokeMintAuthority \/ toolForm.revokeFreezeAuthority
    /\ canRevokeMint \/ canRevokeFreeze
    /\ toolForm.tokenAddress \in ValidAddrs

\* The message onSubmit's validation returns with, or "" when it goes on; the
\* checks in the order of the code.
RevokeValidationError(d) ==
    IF ~tokenInfo.some THEN ErrSelectToken
    ELSE IF d.revokeMintAuthority /\ tokenInfo.mintAuthority # publicKey
      THEN ErrRevokeNotMint
    ELSE IF d.revokeFreezeAuthority /\ tokenInfo.freezeAuthority # publicKey
      THEN ErrRevokeNotFreeze
    ELSE IF d.revokeMintAuthority /\ Falsy(tokenInfo.mintAuthority)
      THEN ErrMintAlreadyRevoked
    ELSE IF d.revokeFreezeAuthority /\ Falsy(tokenInfo.freezeAuthority)
      THEN ErrFreezeAlreadyRevoked
    ELSE ""

\* A revoke transaction with the freeze authority first.
RevokeTransactionSwapped(d) ==
    (IF d.revokeFreezeAuthority
     THEN <<createSetAuthorityInstruction(d.tokenAddress, publicKey, "FreezeAccount")>>
     ELSE <<>>)
    \o (IF d.revokeMintAuthority
        THEN <<createSetAuthorityInstruction(d.tokenAddress, publicKey, "MintTokens")>>
        ELSE <<>>)

\* The transaction of RevokeAuthoritiesClient.onSubmit: the mint authority
\* first, then the freeze authority.
RevokeTransaction(d) ==
    (IF d.revokeMintAuthority
     THEN <<createSetAuthorityInstruction(d.tokenAddress, publicKey, "MintTokens")>>
     ELSE <<>>)
    \o (IF d.revokeFreezeAuthority
        THEN <<createSetAuthorityInstruction(d.tokenAddress, publicKey, "FreezeAccount")>>
        ELSE <<>>)

\* RevokeAuthoritiesClient.onSubmit up to its first await: the validation,
\* and when it passes the transaction handed to sendTransaction.
RevokeSubmit ==
    /\ RevokeButtonEnabled
    /\ toolSubmits < MaxToolSubmits
    /\ toolSubmits' = toolSubmits + 1
    /\ IF RevokeValidationError(toolForm) # ""
       THEN /\ error' = RevokeValidationError(toolForm)
            /\ UNCHANGED <<isProcessing, toolResult, handler, toolSent>>
       ELSE /\ isProcessing' = TRUE
            /\ error' = ""
            /\ toolResult' = FALSE
            /\ handler' = [NoHandler EXCEPT !.stage = "send", !.data = toolForm,
                                            !.tx = RevokeTransaction(toolForm)]
            /\ toolSent' = Append(toolSent, RevokeTransaction(toolForm))
    /\ UNCHANGED <<tool, ledgerMints, ledgerAccounts, selectTokens, toolForm,
                   tokenInfo, accountInfo, tokenFetches, accountFetches>>
    /\ UNCHANGED nonToolVars

\* confirmTransaction settles in the revoke tool.
RevokeConfirmSettles ==
    /\ tool = "revoke"
    /\ handler.stage = "confirm"
    /\ confirmation' = "none"
    /\ \/ /\ toolResult' = TRUE
          /\ toolForm' = DefaultToolForm
          /\ tokenInfo' = NoInfo
          /\ isProcessing' = FALSE
          /\ handler' = NoHandler
          /\ UNCHANGED error
       \/ /\ HandlerThrows(ErrTransaction)
          /\ UNCHANGED <<toolResult, toolForm, tokenInfo>>
    /\ UNCHANGED <<tool, ledgerMints, ledgerAccounts, selectTokens,
                   accountInfo, tokenFetches, accountFetches, toolSubmits,
                   toolSent>>
    /\ UNCHANGED <<libVars, creatorVars, burnVars, calc, upload>>

InitRevoke ==
    /\ LibIdle
    /\ CreatorIdle
    /\ LedgerStates
    /\ ledgerMints["MintA"].mintAuthority = publicKey
    /\ ledgerMints["MintA"].freezeAuthority \in {publicKey, "null"}
    /\ ledgerMints["MintB"].mintAuthority \in {"other", "null"}
    /\ \A k \in MintAddrs \X Owners :
         /\ ~ledgerAccounts[k].frozen
         /\ ledgerAccounts[k].exists = (k[2] = publicKey)
    /\ ToolMounted("revoke")

NextRevoke ==
    \/ EditTokenAddress
    \/ SelectToken
    \/ FetchTokenInfoSettles
    \/ ToggleRevoke
    \/ RevokeSubmit
    \/ ToolSendSettles
    \/ RevokeConfirmSettles
    \/ DismissResult

SpecRevoke == InitRevoke /\ [][NextRevoke]_vars

\* ---------------------------------------------------------- freeze tool

\* The user picks "freeze" or "unfreeze".
SetAction ==
    /\ tool = "freeze"
    /\ FormShown
    /\ toolForm' = [toolForm EXCEPT
                      !.action = IF toolForm.action = "freeze" THEN "unfreeze"
                                                                ELSE "freeze"]
    /\ UNCHANGED <<tool, ledgerMints, ledgerAccounts, selectTokens, tokenInfo,
                   accountInfo, error, isProcessing, toolResult, tokenFetches,
                   accountFetches, handler, toolSubmits, toolSent>>
    /\ UNCHANGED nonToolVars

\* fetchAccountInfo as it would be if the inner catch kept the frozen flag
\* of the account shown before.
AccountInfoAnswersKeepsFrozen(a, o) ==
    { [some |-> TRUE, exists |-> FALSE, frozen |-> f] : f \in {accountInfo.frozen, ~AccountOnLedger(a, o).exists} } \cup
    { [some |-> TRUE, exists |-> TRUE, frozen |-> AccountOnLedger(a, o).frozen] :
        x \in {y \in {1} : AccountOnLedger(a, o).exists} }

\* What fetchAccountInfo passes to setAccountInfo: the account as getAccount
\* returns it, or exists: false when getAccount throws (no account, or the
\* request failed).
AccountInfoAnswers(a, o) ==
    { [some |-> TRUE, exists |-> FALSE, frozen |-> FALSE] } \cup
    { [some |-> TRUE, exists |-> TRUE, frozen |-> AccountOnLedger(a, o).frozen] :
        x \in {y \in {1} : AccountOnLedger(a, o).exists} }

\* A fetchAccountInfo call started by the effect settles.
FetchAccountInfoSettles ==
    /\ tool = "freeze"
    /\ \E f \in accountFetches :
         /\ accountFetches' = accountFetches \ {f}
         /\ accountInfo' \in AccountInfoAnswers(f[1], f[2])
    /\ UNCHANGED <<tool, ledgerMints, ledgerAccounts, selectTokens, toolForm,
                   tokenInfo, error, isProcessing, toolResult, tokenFetches,
                   handler, toolSubmits, toolSent>>
    /\ UNCHANGED nonToolVars

\* The freeze button's disabled attribute, and the form resolver.
FreezeButtonEnabled ==
    /\ tool = "freeze"
    /\ FormShown
    /\ ~isProcessing
    /\ tokenInfo.some
    /\ accountInfo.some
    /\ ~(toolForm.action = "freeze" /\ accountInfo.exists /\ accountInfo.frozen)
    /\ ~(toolForm.action = "unfreeze" /\ (~accountInfo.exists \/ ~accountInfo.frozen))
    /\ toolForm.tokenAddress \in ValidAddrs
    /\ toolForm.targetAddress \in Owners

\* The message onSubmit's validation of the cached accountInfo returns with,
\* or "" when it goes on.
FreezeValidationError(d) ==
    IF ~accountInfo.some THEN ""
    ELSE IF d.action = "freeze" /\ accountInfo.exists /\ accountInfo.frozen
      THEN ErrAlreadyFrozen
    ELSE IF d.action = "unfreeze" /\ (~accountInfo.exists \/ ~accountInfo.frozen)
      THEN (IF accountInfo.exists THEN ErrAlreadyUnfrozen ELSE ErrNoAccount)
    ELSE ""

\* FreezeTokensClient.onSubmit up to its first await on the network
\* (getAccount).
FreezeSubmit ==
    /\ FreezeButtonEnabled
    /\ toolSubmits < MaxToolSubmits
    /\ toolSubmits' = toolSubmits + 1
    /\ IF FreezeValidationError(toolForm) # ""
       THEN /\ error' = FreezeValidationError(toolForm)
            /\ UNCHANGED <<isProcessing, toolResult, handler>>
       ELSE /\ isProcessing' = TRUE
            /\ error' = ""
            /\ toolResult' = FALSE
            /\ handler' = [NoHandler EXCEPT !.stage = "getAccount",
                                            !.data = toolForm,
                                            !.hadTokenInfo = tokenInfo.some]
    /\ UNCHANGED <<tool, ledgerMints, ledgerAccounts, selectTokens, toolForm,
                   tokenInfo, accountInfo, tokenFetches, accountFetches,
                   toolSent>>
    /\ UNCHANGED nonToolVars

\* The transaction of FreezeTokensClient.onSubmit: CreateAssociatedAccount
\* when freezing an account getAccount did not find, then FreezeAccount or
\* ThawAccount.
FreezeTransaction(d, accountExists) ==
    (IF ~accountExists
     THEN <<createAssociatedTokenAccountInstruction(
              publicKey, d.targetAddress, d.tokenAddress)>>
     ELSE <<>>)
    \o <<IF d.action = "freeze"
         THEN createFreezeAccountInstruction(d.tokenAddress, d.targetAddress, publicKey)
         ELSE createThawAccountInstruction(d.tokenAddress, d.targetAddress, publicKey)>>

\* getAccount settles (a rejected request counts as "no account"): the
\* handler throws when it is to thaw an account it did not find, or the
\* transaction is assembled and handed to sendTransaction.
FreezeDispatches ==
    /\ tool = "freeze"
    /\ handler.stage = "getAccount"
    /\ \E accountExists \in {AccountOnLedger(handler.data.tokenAddress,
                                             handler.data.targetAddress).exists,
                             FALSE} :
         IF ~accountExists /\ handler.data.action = "unfreeze"
         THEN /\ HandlerThrows(ErrThawNoAccount)
              /\ UNCHANGED toolSent
         ELSE LET tx == FreezeTransaction(handler.data, accountExists)
              IN /\ handler' = [handler EXCEPT !.stage = "send", !.tx = tx]
                 /\ toolSent' = Append(toolSent, tx)
                 /\ UNCHANGED <<error, isProcessing>>
    /\ UNCHANGED <<tool, ledgerMints, ledgerAccounts, selectTokens, toolForm,
                   tokenInfo, accountInfo, toolResult, tokenFetches,
                   accountFetches, toolSubmits>>
    /\ UNCHANGED nonToolVars

\* confirmTransaction settles in the freeze tool: it throws, or the result
\* is shown and, a token having been shown at the submit, fetchAccountInfo
\* is awaited.
FreezeConfirmSettles ==
    /\ tool = "freeze"
    /\ handler.stage = "confirm"
    /\ confirmation' = "none"
    /\ \/ /\ toolResult' = TRUE
          /\ IF handler.hadTokenInfo
             THEN /\ handler' = [handler EXCEPT !.stage = "refresh"]
                  /\ UNCHANGED isProcessing
             ELSE /\ handler' = NoHandler
                  /\ isProcessing' = FALSE
          /\ UNCHANGED error
       \/ /\ HandlerThrows(ErrTransaction)
          /\ UNCHANGED toolResult
    /\ UNCHANGED <<tool, ledgerMints, ledgerAccounts, selectTokens, toolForm,
                   tokenInfo, accountInfo, tokenFetches, accountFetches,
                   toolSubmits, toolSent>>
    /\ UNCHANGED <<libVars, creatorVars, burnVars, calc, upload>>

\* The fetchAccountInfo awaited by onSubmit settles; then the finally block.
FreezeRefreshSettles ==
    /\ tool = "freeze"
    /\ handler.stage = "refresh"
    /\ accountInfo' \in AccountInfoAnswers(handler.data.tokenAddress,
                                           handler.data.targetAddress)
    /\ isProcessing' = FALSE
    /\ handler' = NoHandler
    /\ UNCHANGED <<tool, ledgerMints, ledgerAccounts, selectTokens, toolForm,
                   tokenInfo, error, toolResult, tokenFetches, accountFetches,
                   toolSubmits, toolSent>>
    /\ UNCHANGED nonToolVars

InitFreeze ==
    /\ LibIdle
    /\ CreatorIdle
    /\ LedgerStates
    /\ \A a \in MintAddrs : ledgerMints[a].mintAuthority = publicKey
    /\ ledgerMints["MintA"].freezeAuthority = publicKey
    /\ ledgerMints["MintB"].freezeAuthority = "other"
    /\ ledgerAccounts[<<"MintA", publicKey>>] = [exists |-> TRUE, frozen |-> FALSE]
    /\ ledgerAccounts[<<"MintA", "other">>].exists
          = ledgerAccounts[<<"MintA", "other">>].frozen
    /\ ledgerAccounts[<<"MintB", publicKey>>] = [exists |-> TRUE, frozen |-> FALSE]
    /\ ledgerAccounts[<<"MintB", "other">>] = [exists |-> FALSE, frozen |-> FALSE]
    /\ ToolMounted("freeze")

NextFreeze ==
    \/ EditTokenAddress
    \/ SelectToken
    \/ EditTargetAddress
    \/ SetAction
    \/ FetchTokenInfoSettles
    \/ FetchAccountInfoSettles
    \/ FreezeSubmit
    \/ FreezeDispatches
    \/ ToolSendSettles
    \/ FreezeConfirmSettles
    \/ FreezeRefreshSettles
    \/ DismissResult

SpecFreeze == InitFreeze /\ [][NextFreeze]_vars

\* ------------------------------------------------------------ burn tool

createBurnInstruction(mint, owner, amount) ==
    [type |-> "Burn", mint |-> mint, owner |-> owner, authority |-> owner,
     amount |-> amount, signers |-> {owner}]

ErrEnterToken == "Please enter a valid token address first."
ErrNoTokens == "You have no tokens to burn for this token."
ErrInsufficientBalance == "Insufficient balance."

\* Math.floor(data.amount * Math.pow(10, tokenInfo.decimals)), for an amount
\* given in half raw units of a mint with MaxDecimals decimals.
BurnAmountRaw(amount, decimals) ==
    (amount * Pow10(decimals)) \div (2 * Pow10(MaxDecimals))

\* maxBurnAmount = userBalanceRaw / Math.pow(10, decimals), in half raw units.
maxBurnAmount ==
    IF tokenInfo.some /\ userBalanceRaw # 0
    THEN (2 * userBalanceRaw * Pow10(MaxDecimals)) \div Pow10(tokenInfo.decimals)
    ELSE 0

\* The amounts the user may enter.
BurnAmounts == 0..(2 * MaxBurnBalance + 2) \cup {DefaultBurnAmount}

\* The user types an amount (parseFloat(e.target.value) || 0), or presses
\* "Max", shown while a positive balance is shown.
SetBurnAmount ==
    /\ tool = "burn"
    /\ FormShown
    /\ \/ burnAmount' \in BurnAmounts \ {burnAmount}
       \/ /\ tokenInfo.some /\ userBalanceRaw > 0
          /\ burnAmount' = maxBurnAmount
    /\ UNCHANGED <<ledgerBalance, userBalanceRaw>>
    /\ UNCHANGED toolVars
    /\ UNCHANGED nonBurnVars

\* The balance fetchTokenInfo reads for mint a: the amount of the wallet's
\* account, or 0 when getAccount throws (no account, or the request failed).
BalanceAnswers(a) ==
    {0} \cup {ledgerBalance[a] : x \in {y \in {1} :
                ledgerAccounts[<<a, publicKey>>].exists}}

\* What a settling fetchTokenInfo(a) of the burn tool leaves in tokenInfo,
\* userBalanceRaw and error.
BurnFetchOutcome(a) ==
    \/ /\ a \in MintAddrs
       /\ tokenInfo' = FetchedInfo(a)
       /\ userBalanceRaw' \in BalanceAnswers(a)
       /\ error' = ""
    \/ /\ error' = (IF a \in MintAddrs THEN ErrFetchFailed ELSE ErrNotAMint)
       /\ tokenInfo' = NoInfo
       /\ userBalanceRaw' = 0

\* A fetchTokenInfo call started by the address field settles.
BurnFetchTokenInfoSettles ==
    /\ tool = "burn"
    /\ \E a \in tokenFetches :
         /\ tokenFetches' = tokenFetches \ {a}
         /\ BurnFetchOutcome(a)
    /\ UNCHANGED <<tool, ledgerMints, ledgerAccounts, selectTokens, toolForm,
                   accountInfo, isProcessing, toolResult, accountFetches,
                   handler, toolSubmits, toolSent>>
    /\ UNCHANGED <<ledgerBalance, burnAmount>>
    /\ UNCHANGED nonBurnVars

\* The burn button's disabled attribute, and the form resolver.
BurnButtonEnabled ==
    /\ tool = "burn"
    /\ FormShown
    /\ ~isProcessing
    /\ tokenInfo.some
    /\ userBalanceRaw # 0
    /\ burnAmount > 0
    /\ burnAmount <= maxBurnAmount
    /\ toolForm.tokenAddress \in ValidAddrs

\* A validation that also rejects an amount equal to the balance.
BurnValidationErrorStrict(amount) ==
    IF ~tokenInfo.some THEN ErrEnterToken
    ELSE IF userBalanceRaw = 0 THEN ErrNoTokens
    ELSE IF BurnAmountRaw(amount, tokenInfo.decimals) >= userBalanceRaw
      THEN ErrInsufficientBalance
    ELSE ""

\* The message onSubmit's validation returns with, or "" when it goes on.
BurnValidationError(amount) ==
    IF ~tokenInfo.some THEN ErrEnterToken
    ELSE IF userBalanceRaw = 0 THEN ErrNoTokens
    ELSE IF BurnAmountRaw(amount, tokenInfo.decimals) > userBalanceRaw
      THEN ErrInsufficientBalance
    ELSE ""

\* The transaction of BurnTokensClient.onSubmit: one Burn of the wallet's own
\* account of the mint in the form data.
BurnTransaction(d, amount) ==
    <<createBurnInstruction(d.tokenAddress, publicKey,
                            BurnAmountRaw(amount, tokenInfo.decimals))>>

\* BurnTokensClient.onSubmit up to its first await on the network: the
\* validation, and when it passes the transaction handed to sendTransaction.
BurnSubmit ==
    /\ BurnButtonEnabled
    /\ toolSubmits < MaxToolSubmits
    /\ toolSubmits' = toolSubmits + 1
    /\ IF BurnValidationError(burnAmount) # ""
       THEN /\ error' = BurnValidationError(burnAmount)
            /\ UNCHANGED <<isProcessing, toolResult, handler, toolSent>>
       ELSE /\ isProcessing' = TRUE
            /\ error' = ""
            /\ toolResult' = FALSE
            /\ handler' = [NoHandler EXCEPT
                             !.stage = "send", !.data = toolForm,
                             !.tx = BurnTransaction(toolForm, burnAmount),
                             !.hadTokenInfo = tokenInfo.some]
            /\ toolSent' = Append(toolSent, BurnTransaction(toolForm, burnAmount))
    /\ UNCHANGED <<tool, ledgerMints, ledgerAccounts, selectTokens, toolForm,
                   tokenInfo, accountInfo, tokenFetches, accountFetches>>
    /\ UNCHANGED burnVars
    /\ UNCHANGED nonBurnVars

\* The token program accepts a Burn of an existing, unfrozen account that
\* holds the amount.
BurnAccepted(i) ==
    /\ i.mint \in MintAddrs
    /\ ledgerAccounts[<<i.mint, i.owner>>].exists
    /\ ~ledgerAccounts[<<i.mint, i.owner>>].frozen
    /\ ledgerBalance[i.mint] >= i.amount

\* sendTransaction settles in the burn tool: declined or rejected (the
\* handler throws), or a signature is returned, the ledger having executed
\* the Burn or recorded it as failed.
BurnSendSettles ==
    /\ tool = "burn"
    /\ handler.stage = "send"
    /\ \/ /\ BurnAccepted(handler.tx[1])
          /\ ledgerBalance' = [ledgerBalance EXCEPT ![handler.tx[1].mint] =
                                 @ - handler.tx[1].amount]
          /\ confirmation' = "ok"
          /\ handler' = [handler EXCEPT !.stage = "confirm"]
          /\ UNCHANGED <<error, isProcessing>>
       \/ /\ confirmation' = "err"
          /\ handler' = [handler EXCEPT !.stage = "confirm"]
          /\ UNCHANGED <<ledgerBalance, error, isProcessing>>
       \/ /\ HandlerThrows(ErrTransaction)
          /\ UNCHANGED <<ledgerBalance, confirmation>>
    /\ UNCHANGED <<tool, ledgerMints, ledgerAccounts, selectTokens, toolForm,
                   tokenInfo, accountInfo, toolResult, tokenFetches,
                   accountFetches, toolSubmits, toolSent>>
    /\ UNCHANGED <<userBalanceRaw, burnAmount>>
    /\ UNCHANGED <<libVars, creatorVars, calc, upload>>

\* confirmTransaction settles in the burn tool: it throws, or the result is
\* shown, the form reset and fetchTokenInfo awaited.
BurnConfirmSettles ==
    /\ tool = "burn"
    /\ handler.stage = "confirm"
    /\ confirmation' = "none"
    /\ \/ /\ toolResult' = TRUE
          /\ toolForm' = DefaultToolForm
          /\ burnAmount' = DefaultBurnAmount
          /\ handler' = [handler EXCEPT !.stage = "refresh"]
          /\ UNCHANGED <<error, isProcessing>>
       \/ /\ HandlerThrows(ErrTransaction)
          /\ UNCHANGED <<toolResult, toolForm, burnAmount>>
    /\ UNCHANGED <<tool, ledgerMints, ledgerAccounts, selectTokens, tokenInfo,
                   accountInfo, tokenFetches, accountFetches, toolSubmits,
                   toolSent>>
    /\ UNCHANGED <<ledgerBalance, userBalanceRaw>>
    /\ UNCHANGED <<libVars, creatorVars, calc, upload>>

\* The fetchTokenInfo awaited by onSubmit settles; then the finally block.
BurnRefreshSettles ==
    /\ tool = "burn"
    /\ handler.stage = "refresh"
    /\ BurnFetchOutcome(handler.data.tokenAddress)
    /\ isProcessing' = FALSE
    /\ handler' = NoHandler
    /\ UNCHANGED <<tool, ledgerMints, ledgerAccounts, selectTokens, toolForm,
                   accountInfo, toolResult, tokenFetches, accountFetches,
                   toolSubmits, toolSent>>
    /\ UNCHANGED <<ledgerBalance, burnAmount>>
    /\ UNCHANGED nonBurnVars

InitBurn ==
    /\ LibIdle
    /\ CreatorIdle
    /\ LedgerStates
    /\ \A a \in MintAddrs :
         ledgerMints[a].mintAuthority = "null" /\ ledgerMints[a].freezeAuthority = "null"
    /\ \A k \in MintAddrs \X Owners :
         /\ ~ledgerAccounts[k].frozen
         /\ k[2] # publicKey => ~ledgerAccounts[k].exists
    /\ ledgerAccounts[<<"MintA", publicKey>>].exists
    /\ ledgerBalance \in [MintAddrs -> 0..MaxBurnBalance]
    /\ ledgerBalance["MintA"] > 0
    /\ ledgerBalance["MintB"] < MaxBurnBalance
    /\ ledgerBalance["MintB"] > 0 => ledgerAccounts[<<"MintB", publicKey>>].exists
    /\ ToolMounted("burn")

NextBurn ==
    \/ EditTokenAddress
    \/ SetBurnAmount
    \/ BurnFetchTokenInfoSettles
    \/ BurnSubmit
    \/ BurnSendSettles
    \/ BurnConfirmSettles
    \/ BurnRefreshSettles
    \/ DismissResult

SpecBurn == InitBurn /\ [][NextBurn]_vars

\* ------------------------------ the tools that resolve a token account

\* The freeze tool or the burn tool, whichever is mounted.
InitAccountTools == InitFreeze \/ InitBurn

NextAccountTools ==
    \/ tool = "freeze" /\ NextFreeze
    \/ tool = "burn" /\ NextBurn

SpecAccountTools == InitAccountTools /\ [][NextAccountTools]_vars

\* ------------------------------------------- resolving a token, any tool

\* fetchTokenInfo of the mint, freeze and revoke tools over every assignment
\* of authorities to the mints.
InitResolve ==
    /\ LibIdle
    /\ CreatorIdle
    /\ LedgerStates
    /\ \A k \in MintAddrs \X Owners :
         ledgerAccounts[k] = [exists |-> (k[2] = publicKey), frozen |-> FALSE]
    /\ \E t \in {"mint", "freeze", "revoke"} : ToolMounted(t)

NextResolve ==
    \/ EditTokenAddress
    \/ FetchTokenInfoSettles

SpecResolve == InitResolve /\ [][NextResolve]_vars

\* =====================================================================
\* Part 4: amounts.  data.supply * Math.pow(10, data.decimals) and
\* Math.floor(data.amount * Math.pow(10, decimals)) in JavaScript numbers
\* (IEEE 754 binary64).  Natural numbers beyond the model checker's integers
\* are sequences of bits, lowest first, without leading zeros.
\* =====================================================================

RECURSIVE Bits(_)
Bits(n) == IF n = 0 THEN <<>> ELSE <<n % 2>> \o Bits(n \div 2)

RECURSIVE Normalized(_)
Normalized(b) ==
    IF b = <<>> THEN <<>>
    ELSE IF b[Len(b)] = 0 THEN Normalized(SubSeq(b, 1, Len(b) - 1))
    ELSE b

\* b * 2^k
ShiftLeft(b, k) == IF b = <<>> THEN <<>> ELSE [i \in 1..k |-> 0] \o b

\* floor(b / 2^k)
ShiftRight(b, k) == IF k >= Len(b) THEN <<>> ELSE SubSeq(b, k + 1, Len(b))

\* a + b: the bit at i is a[i] + b[i] + the carry into i, and a carry enters
\* i when some lower position generates one and every position between
\* passes it on.
Sum(a, b) ==
    LET n == (IF Len(a) > Len(b) THEN Len(a) ELSE Len(b)) + 1
        A(i) == IF i <= Len(a) THEN a[i] ELSE 0
        B(i) == IF i <= Len(b) THEN b[i] ELSE 0
        Carry(i) == \E j \in 1..(i - 1) :
                       /\ A(j) + B(j) = 2
                       /\ \A l \in (j + 1)..(i - 1) : A(l) + B(l) >= 1
    IN Normalized([i \in 1..n |->
                     (A(i) + B(i) + (IF Carry(i) THEN 1 ELSE 0)) % 2])

\* b * 10^d, exactly
RECURSIVE TimesPow10(_, _)
TimesPow10(b, d) ==
    IF d = 0 THEN b
    ELSE TimesPow10(Sum(ShiftLeft(b, 1), ShiftLeft(b, 3)), d - 1)

RECURSIVE Pow2(_)
Pow2(k) == IF k = 0 THEN 1 ELSE 2 * Pow2(k - 1)

\* The number a short sequence of bits stands for.
RECURSIVE Value(_)
Value(b) == IF b = <<>> THEN 0 ELSE Head(b) + 2 * Value(Tail(b))

\* The c lowest bits of n.
PaddedBits(n, c) == [i \in 1..c |-> (n \div Pow2(i - 1)) % 2]

\* Long division handles this many bits in one step.
ChunkBits == 16

\* Quotient (not normalized) and remainder of b by a divisor of at most
\* 10^4, ChunkBits bits at a time from the highest.
RECURSIVE DivRem(_, _)
DivRem(b, den) ==
    IF b = <<>> THEN [q |-> <<>>, r |-> 0]
    ELSE LET c == IF Len(b) < ChunkBits THEN Len(b) ELSE ChunkBits
             hi == DivRem(SubSeq(b, c + 1, Len(b)), den)
             t == hi.r * Pow2(c) + Value(SubSeq(b, 1, c))
         IN [q |-> PaddedBits(t \div den, c) \o hi.q, r |-> t % den]

\* The significand of a JavaScript number has 53 bits.
Precision == 53

\* The nearest number with Precision significant bits to b (+ a fraction
\* below one unit when `inexact`), ties to even.
RoundToNumber(b, inexact) ==
    IF Len(b) <= Precision THEN b
    ELSE LET drop == Len(b) - Precision
             kept == SubSeq(b, drop + 1, Len(b))
             sticky == inexact \/ \E i \in 1..(drop - 1) : b[i] = 1
             up == b[drop] = 1 /\ (sticky \/ kept[1] = 1)
         IN ShiftLeft(IF up THEN Sum(kept, <<1>>) ELSE kept, drop)

\* A number with a fraction is m * 2^-ScaleBits; ScaleBits is large enough
\* for an amount of 10^-3 or more to keep Precision bits.
ScaleBits == 66

\* The number a form field holds after the user typed n / 10^k: the nearest
\* number to it.
TypedNumber(n, k) ==
    LET qr == DivRem(ShiftLeft(Bits(n), ScaleBits), Pow10(k))
    IN RoundToNumber(Normalized(qr.q), qr.r # 0)

\* x * Math.pow(10, d): Math.pow(10, d) is exact for d <= 9, the product is
\* rounded once.
NumberTimesPow10(x, d) == RoundToNumber(TimesPow10(x, d), FALSE)

\* Math.floor(x) as the integer it is
MathFloor(x) == ShiftRight(x, ScaleBits)

\* data.supply * Math.pow(10, data.decimals) for an integer supply, as
\* createMintToInstruction encodes it.
SupplyAmount(supply, decimals) == NumberTimesPow10(supply, decimals)

\* Math.floor(data.amount * Math.pow(10, decimals))
FlooredAmount(amount, decimals) == MathFloor(NumberTimesPow10(amount, decimals))

\* ------------------------------------------------------------ the inputs
MaxCalcDecimals == 9       \* decimals: z.number().min(0).max(9)
MaxTyped == 30             \* the digits typed into an amount field, as a number
MaxTypedPlaces == 2        \* how many of them follow the decimal point
SupplyBitsFrom == 50       \* the large supplies explored: 2^k - 1 from this
                           \* k up to Precision, all of them exact numbers

\* 2^k - 1
Ones(k) == [i \in 1..k |-> 1]

\* The supplies explored: small ones, the form's default, and large ones.
Supplies ==
    {Bits(n) : n \in {1, 2, 3, 7, 1000000}} \cup
    {TimesPow10(Bits(1000), 9)} \cup
    {Ones(k) : k \in SupplyBitsFrom..Precision}

\* The amount fits the ledger's 64-bit field.
FitsU64(b) == Len(b) <= 64

\* The user fills in a form: supply and decimals of a new token, or the
\* amount to mint or burn of a token with the given decimals.
EnterAmount ==
    /\ calc.op = "none"
    /\ \/ \E supply \in Supplies, decimals \in 0..MaxCalcDecimals :
            /\ calc' = [op |-> "create", n |-> supply, k |-> 0,
                        x |-> supply, decimals |-> decimals,
                        done |-> FALSE, value |-> <<>>]
       \/ \E op \in {"mint", "burn"}, n \in 1..MaxTyped, k \in 0..MaxTypedPlaces,
             decimals \in 0..MaxCalcDecimals :
            /\ k > 0 => n % 10 # 0
            /\ calc' = [op |-> op, n |-> Bits(n), k |-> k,
                        x |-> TypedNumber(n, k), decimals |-> decimals,
                        done |-> FALSE, value |-> <<>>]
    /\ UNCHANGED <<libVars, creatorVars, toolVars, burnVars, confirmation, upload>>

\* createToken / createUltraCheapToken compute the MintTo amount.
ComputeSupplyAmount ==
    /\ calc.op = "create"
    /\ ~calc.done
    /\ calc' = [calc EXCEPT !.done = TRUE,
                            !.value = SupplyAmount(calc.x, calc.decimals)]
    /\ UNCHANGED <<libVars, creatorVars, toolVars, burnVars, confirmation, upload>>

\* MintTokensClient.onSubmit computes mintAmount.
ComputeMintAmount ==
    /\ calc.op = "mint"
    /\ ~calc.done
    /\ calc' = [calc EXCEPT !.done = TRUE,
                            !.value = FlooredAmount(calc.x, calc.decimals)]
    /\ UNCHANGED <<libVars, creatorVars, toolVars, burnVars, confirmation, upload>>

\* BurnTokensClient.onSubmit computes burnAmountRaw.
ComputeBurnAmount ==
    /\ calc.op = "burn"
    /\ ~calc.done
    /\ calc' = [calc EXCEPT !.done = TRUE,
                            !.value = FlooredAmount(calc.x, calc.decimals)]
    /\ UNCHANGED <<libVars, creatorVars, toolVars, burnVars, confirmation, upload>>

InitAmount == LibIdle /\ CreatorIdle /\ ToolIdle

NextAmount ==
    \/ EnterAmount
    \/ ComputeSupplyAmount
    \/ ComputeMintAmount
    \/ ComputeBurnAmount

SpecAmount == InitAmount /\ [][NextAmount]_vars

\* =====================================================================
\* Part 5.  The metadata upload endpoint, POST /api/upload
\* =====================================================================

NoImage == [some |-> FALSE, type |-> "", big |-> FALSE]

\* The image files a request may carry: the type the browser reports, and
\* whether the file is larger than 1 MB.
ImageFiles ==
    {NoImage} \cup
    [some : {TRUE},
     type : {"text/plain", "image/png", "image/webp", "image/jpeg", "image/gif"},
     big : BOOLEAN]

\* The requests: whether a storage client is configured, whether the body
\* parses as form data, and the form's fields ("long" stands for a text of
\* more than 512 characters).
UploadRequests ==
    [storage : BOOLEAN,
     parses : BOOLEAN,
     mintId : {"", "short", "MintA"},
     name : {"", "Name", "long"},
     symbol : {"", "SYM", "long"},
     description : {"", "long"},
     image : ImageFiles]

\* validateMintId: the text is a public key in its canonical form.
validateMintId(mintId) == mintId \in ValidAddrs

\* validateTokenData: the list of what is wrong with the fields.
validateTokenData(d) ==
    (IF d.name = "" THEN <<"Name is required">>
     ELSE IF d.name = "long" THEN <<"Name must be 512 characters or less">>
     ELSE <<>>)
    \o (IF d.symbol = "" THEN <<"Symbol is required">>
        ELSE IF d.symbol = "long" THEN <<"Symbol must be 512 characters or less">>
        ELSE <<>>)
    \o (IF d.description = "long"
        THEN <<"Description must be 512 characters or less">>
        ELSE <<>>)

\* The extension of the image's key, from its content type.
FileExtension(contentType) ==
    IF contentType = "image/webp" THEN "webp"
    ELSE IF contentType = "image/png" THEN "png"
    ELSE IF contentType = "image/jpeg" THEN "jpg"
    ELSE "img"

\* tokens/<mintId>/image.<ext> and tokens/<mintId>/metadata.json
ImageFileName(mintId, contentType) ==
    <<"tokens", mintId, "image", FileExtension(contentType)>>

MetadataFileName(mintId) == <<"tokens", mintId, "metadata.json">>

\* `${publicUrl}/${fileName}`
PublicUrl(fileName) == <<"publicUrl">> \o fileName

\* The handler returns NextResponse.json(...): an error with its status, or
\* the success body.
ErrorResponse(u, status, message) ==
    [u EXCEPT !.pc = "done",
              !.response = [status |-> status, error |-> message,
                            metadataUrl |-> <<>>, imageUrl |-> <<>>]]

\* The catch block of POST.
UploadFailed(u) == ErrorResponse(u, 500, <<"Failed to create token metadata">>)

\* POST up to its first await on the storage: the configuration check, the
\* parsing of the form, the validations, and the first upload it starts.
Received(r) ==
    LET u == [pc |-> "received", req |-> r, written |-> <<>>, imageUrl |-> <<>>,
              response |-> [status |-> 0, error |-> <<>>,
                            metadataUrl |-> <<>>, imageUrl |-> <<>>]]
    IN IF ~r.storage THEN ErrorResponse(u, 500, <<"R2 not configured">>)
       ELSE IF ~r.parses THEN UploadFailed(u)
       ELSE IF r.mintId = "" THEN ErrorResponse(u, 400, <<"Mint ID is required">>)
       ELSE IF ~validateMintId(r.mintId)
         THEN ErrorResponse(u, 400, <<"Invalid mint ID. Must be a valid Solana public key.">>)
       ELSE IF validateTokenData(r) # <<>>
         THEN ErrorResponse(u, 400, validateTokenData(r))
       ELSE IF r.image.some
         THEN IF r.image.type \notin {"image/png", "image/webp", "image/jpeg", "image/gif"}
              THEN ErrorResponse(u, 400, <<"File must be an image">>)
              ELSE IF r.image.big
              THEN ErrorResponse(u, 400, <<"Image must be smaller than 1MB">>)
              ELSE [u EXCEPT !.pc = "putImage"]
       ELSE [u EXCEPT !.pc = "putMetadata"]

\* A request arrives.
Post ==
    /\ upload.pc = "idle"
    /\ \E r \in UploadRequests : upload' = Received(r)
    /\ UNCHANGED <<libVars, creatorVars, toolVars, burnVars, confirmation, calc>>

\* uploadToR2 of the image settles: the object is stored and the handler goes
\* on to the metadata, or the storage rejects and the catch block answers.
PutImageSettles ==
    /\ upload.pc = "putImage"
    /\ LET fileName == ImageFileName(upload.req.mintId, upload.req.image.type)
       IN \/ upload' = [upload EXCEPT
                          !.pc = "putMetadata",
                          !.written = Append(@, [key |-> fileName,
                                                 body |-> upload.req.image]),
                          !.imageUrl = PublicUrl(fileName)]
          \/ upload' = UploadFailed(upload)
    /\ UNCHANGED <<libVars, creatorVars, toolVars, burnVars, confirmation, calc>>

\* uploadToR2 of metadata.json settles: the object is stored and the success
\* body returned, or the storage rejects and the catch block answers.
PutMetadataSettles ==
    /\ upload.pc = "putMetadata"
    /\ LET fileName == MetadataFileName(upload.req.mintId)
       IN \/ upload' = [upload EXCEPT
                          !.pc = "done",
                          !.written = Append(@, [key |-> fileName,
                                                 body |-> [image |-> upload.imageUrl]]),
                          !.response = [status |-> 200, error |-> <<>>,
                                        metadataUrl |-> PublicUrl(fileName),
                                        imageUrl |-> upload.imageUrl]]
          \/ upload' = UploadFailed(upload)
    /\ UNCHANGED <<libVars, creatorVars, toolVars, burnVars, confirmation, calc>>

InitUpload == LibIdle /\ CreatorIdle /\ ToolIdle

NextUpload ==
    \/ Post
    \/ PutImageSettles
    \/ PutMetadataSettles

SpecUpload == InitUpload /\ [][NextUpload]_vars

\* ----------------------------------------------- claims on the creators

\* C5: a fee estimation superseded by a newer input has its result
\* discarded: with a wallet connected, once no timer is pending and no
\* estimator call is in flight,
\* the stored estimatedFee and feeError were written by the latest
\* estimateFee invocation (the one started for the most recent input).
C5_LatestEstimateWins ==
    (connected /\ estimatesInFlight = {} /\ ~timerPending /\ estimateCalls > 0) =>
        feeFrom = estimateCalls

\* C6: while a create submission is in flight (isCreating), no fee
\* estimation is started.
C6_NoEstimateWhileSubmitting ==
    [][isCreating => estimatesInFlight' \subseteq estimatesInFlight]_vars

\* The handlers whose sendTransaction has been dispatched and whose
\* submission has not completed.
Outstanding == {h \in handlers : h.stage \in {"send", "confirm"}}

\* C7: at most one submission of a component is outstanding at any time.
C7_OneOutstandingSubmission == Cardinality(Outstanding) <= 1

Init == LibInit /\ CreatorIdle /\ ToolIdle

Next ==
    \/ Call
    \/ GetMintRent
    \/ UploadMetadata
    \/ GetBalance
    \/ GetTokenAccountRent
    \/ GetMetadataAccountRent
    \/ GetLatestBlockhash
    \/ GetFeeForMessage
    \/ GetFeeCalculator
    \/ SendTransaction
    \/ ConfirmTransaction

Spec == Init /\ [][Next]_vars

\* -------------------------------------------------- claims on the tools

\* A transaction holds a MintTo for a mint whose mint authority, as the
\* ledger has it, is not the connected wallet.
MintsWithoutAuthority(tx) ==
    \E i \in 1..Len(tx) :
        tx[i].type = "MintTo" /\ ledgerMints[tx[i].mint].mintAuthority # publicKey

\* C8: the mint tool hands a Mint transaction to sendTransaction only when the
\* resolved mint authority of the mint is the connected wallet.
C8_MintOnlyWithAuthority ==
    tool = "mint" =>
        \A n \in 1..Len(toolSent) : ~MintsWithoutAuthority(toolSent[n])

\* C9: a revoke request for the mint authority of a token whose mint
\* authority is resolved as None fails with the message 'Mint authority has
\* already been revoked for this token.' and sends nothing; likewise for the
\* freeze authority.
C9_AlreadyRevoked ==
    [][(tool = "revoke" /\ toolSubmits' = toolSubmits + 1) =>
         /\ (toolForm.revokeMintAuthority /\ tokenInfo.mintAuthority = "null") =>
               (error' = ErrMintAlreadyRevoked /\ toolSent' = toolSent)
         /\ (/\ toolForm.revokeFreezeAuthority
             /\ tokenInfo.freezeAuthority = "null"
             /\ ~(toolForm.revokeMintAuthority /\ tokenInfo.mintAuthority = "null")) =>
               (error' = ErrFreezeAlreadyRevoked /\ toolSent' = toolSent)]_vars

\* C10: a freeze request whose target account exists on the ledger and is
\* frozen at the time of the request sets the error 'Cannot freeze account -
\* it is already frozen.' and goes no further, so that nothing is sent.
C10_AlreadyFrozen ==
    [][(/\ tool = "freeze"
        /\ toolSubmits' = toolSubmits + 1
        /\ toolForm.action = "freeze"
        /\ AccountOnLedger(toolForm.tokenAddress, toolForm.targetAddress).exists
        /\ AccountOnLedger(toolForm.tokenAddress, toolForm.targetAddress).frozen) =>
         (error' = ErrAlreadyFrozen /\ handler' = NoHandler /\ toolSent' = toolSent)]_vars

\* C11: an unfreeze request for a target whose token account does not exist,
\* or exists and is not frozen, hands nothing to sendTransaction (and so
\* never a CreateAssociatedAccount for an unfreeze).
C11_UnfreezeNeedsFrozen ==
    [][(/\ tool = "freeze"
        /\ toolSent' # toolSent
        /\ handler.data.action = "unfreeze") =>
         (/\ AccountOnLedger(handler.data.tokenAddress,
                             handler.data.targetAddress).exists
          /\ AccountOnLedger(handler.data.tokenAddress,
                             handler.data.targetAddress).frozen)]_vars

C13_MintPlanShape ==
    [][(tool = "mint" /\ toolSent' # toolSent) =>
         Types(handler'.tx) =
           (IF AccountOnLedger(handler.data.tokenAddress,
                               handler.data.targetAddress).exists
            THEN <<"MintTo">>
            ELSE <<"CreateAssociatedAccount", "MintTo">>)]_vars

\* The authority kinds a revoke request asks for, mint first.
RequestedKinds(d) ==
    (IF d.revokeMintAuthority THEN <<"MintTokens">> ELSE <<>>)
    \o (IF d.revokeFreezeAuthority THEN <<"FreezeAccount">> ELSE <<>>)

\* C15: the transaction the revoke tool hands to sendTransaction is never
\* empty and holds exactly one SetAuthority to null per requested kind, for
\* the mint of the request, the mint authority before the freeze authority.
C15_RevokePlan ==
    [][(tool = "revoke" /\ toolSent' # toolSent) =>
         LET tx == handler'.tx
         IN /\ tx # <<>>
            /\ toolSent' = Append(toolSent, tx)
            /\ Len(tx) = Len(RequestedKinds(toolForm))
            /\ \A i \in 1..Len(tx) :
                 /\ tx[i].type = "SetAuthority"
                 /\ tx[i].kind = RequestedKinds(toolForm)[i]
                 /\ tx[i].newAuthority = "null"
                 /\ tx[i].mint = toolForm.tokenAddress]_vars

\* A revoke of both authorities has been handed to sendTransaction.
C15_Witness ==
    /\ tool = "revoke"
    /\ handler.stage = "send"
    /\ Len(handler.tx) = 2
    /\ toolSent = <<handler.tx>>

\* Every authority the mounted tool asks for is v on mint a.
AuthoritiesAll(a, v) ==
    CASE tool = "mint" -> ledgerMints[a].mintAuthority = v
      [] tool = "freeze" -> ledgerMints[a].freezeAuthority = v
      [] OTHER -> /\ ledgerMints[a].mintAuthority = v
                  /\ ledgerMints[a].freezeAuthority = v

\* C16: when resolving a token whose required authority is None reports an
\* error, the message differs from the one reported for a token whose
\* required authority is held by another address.
C16_DistinctAuthorityErrors ==
    [][\A a \in (tokenFetches \ tokenFetches') \cap MintAddrs :
         (AuthoritiesAll(a, "null") /\ error' = TokenInfoError(a)) =>
            \A b \in MintAddrs :
               AuthoritiesAll(b, "other") => error' # TokenInfoError(b)]_vars

\* C17: a flow reaches its success state only if the ledger confirmed the
\* transaction without error: the library function that awaited the
\* confirmation returns a mint, and a tool shows its result, only when the
\* confirmation response carries no error.
C17_SuccessOnlyIfConfirmed ==
    [][/\ (pc = "confirm" /\ pc' = "done" /\ ret'.kind = "ok") =>
             confirmation = "ok"
       /\ (tool # "none" /\ handler.stage = "confirm" /\ toolResult') =>
             confirmation = "ok"]_vars

\* The authority of the given kind that the ledger holds for mint a.
LedgerAuthority(a, kind) ==
    IF a \notin MintAddrs THEN "none"
    ELSE IF kind = "MintTokens" THEN ledgerMints[a].mintAuthority
    ELSE ledgerMints[a].freezeAuthority

\* C18: a submission is validated against the ledger as it is at the submit,
\* not against what an earlier fetch left: every SetAuthority that the revoke
\* tool hands to sendTransaction names a mint whose authority of that kind
\* is, on the ledger at that moment, the connected wallet.
C18_ValidatedAgainstLedger ==
    [][(tool = "revoke" /\ toolSent' # toolSent) =>
         \A i \in 1..Len(handler'.tx) :
            LedgerAuthority(handler'.tx[i].mint, handler'.tx[i].kind) = publicKey]_vars

\* C19: an estimator that returns, returns the sum of the rent quotes it
\* fetched, the protocol fee of 10,000,000 lamports (estimateCreateTokenFee
\* only) and the transaction fee: estimateCreateTokenFee mintRent +
\* tokenAccountRent + metadataAccountRent + 10,000,000 + transactionFee,
\* estimateUltraCheapTokenFee mintRent + tokenAccountRent + transactionFee.
\* In the per-signature fallback the transaction fee is lamportsPerSignature
\* times 2.  The full estimate is the ultra-cheap total of the same quotes
\* plus metadataAccountRent + 10,000,000, and nothing of the request (supply,
\* decimals) enters the sum.
C19_FeeEstimateSum ==
    (fn \in Estimators /\ pc = "done" /\ ret.kind = "ok") =>
        /\ mintRent.some /\ tokenAccountRent.some
        /\ fn = "estimateCreateTokenFee" =>
             /\ metadataAccountRent.some
             /\ ret.value = mintRent.v + tokenAccountRent.v
                              + metadataAccountRent.v + 10000000
                              + ToNumber(feeValue)
             /\ ret.value - UltraCheapTotalFee(mintRent, tokenAccountRent, feeValue)
                  = metadataAccountRent.v + 10000000
        /\ fn = "estimateUltraCheapTokenFee" =>
             ret.value = mintRent.v + tokenAccountRent.v + ToNumber(feeValue)
        /\ ~hasGetFeeForMessage =>
             \E lamportsPerSignature \in 1..MaxFee :
                 feeValue = Some(lamportsPerSignature * 2)

C19_Witness ==
    /\ fn = "estimateCreateTokenFee"
    /\ pc = "done"
    /\ ret.kind = "ok"
    /\ ~hasGetFeeForMessage
    /\ feeValue = Some(2 * MaxFee)
    /\ ret.value = MintRentLamports + TokenAccountRentLamports
                     + MetadataRentLamports + 10000000 + 2 * MaxFee

\* C20: the transaction the freeze tool hands to sendTransaction is exactly
\* [ThawAccount] for an unfreeze; for a freeze it is [FreezeAccount] when the
\* target's token account exists on the ledger at that time and
\* [CreateAssociatedAccount(target), FreezeAccount] when it does not, the
\* account created being the one that is frozen.
C20_FreezePlanShape ==
    [][(tool = "freeze" /\ toolSent' # toolSent) =>
         LET d == handler.data
             tx == handler'.tx
         IN /\ toolSent' = Append(toolSent, tx)
            /\ d.action = "unfreeze" => Types(tx) = <<"ThawAccount">>
            /\ d.action = "freeze" =>
                 IF AccountOnLedger(d.tokenAddress, d.targetAddress).exists
                 THEN Types(tx) = <<"FreezeAccount">>
                 ELSE /\ Types(tx) = <<"CreateAssociatedAccount", "FreezeAccount">>
                      /\ tx[1].owner = d.targetAddress
                      /\ tx[1].mint = d.tokenAddress
                      /\ tx[2].owner = d.targetAddress
                      /\ tx[2].mint = d.tokenAddress]_vars

\* floor(n / 10^k * 10^d) in exact arithmetic.
ExactFloor(n, k, d) == Normalized(DivRem(TimesPow10(n, d), Pow10(k)).q)

\* C14: the MintTo amount of createToken and createUltraCheapToken is the
\* exact integer supply * 10^decimals, and the raw amount of the mint and
\* burn tools is floor(amount * 10^decimals) for the amount n / 10^k that
\* was entered.
C14_ExactAmounts ==
    calc.op # "none" /\ calc.done =>
        IF calc.op = "create"
        THEN calc.value = TimesPow10(calc.n, calc.decimals)
        ELSE calc.value = ExactFloor(calc.n, calc.k, calc.decimals)

\* C21: createToken has invoked the upload for its mint before it assembles
\* its transaction, and the CreateMetadata instruction carries the URI the
\* upload returned; a createToken whose upload failed has thrown and has
\* handed no transaction for its mint to sendTransaction.
\* createUltraCheapToken and the estimators never invoke the upload.
C21_UploadBeforeTransaction ==
    /\ (fn = "createToken" /\ transaction # <<>>) =>
          /\ mintKeypair \in uploads
          /\ metadataUri = UploadedUri(mintKeypair)
          /\ \A i \in 1..Len(transaction) :
                transaction[i].type = "CreateMetadata" =>
                    transaction[i].uri = UploadedUri(mintKeypair)
    /\ (fn = "createToken" /\ ret = Thrown("Failed to create token metadata")) =>
          /\ transaction = <<>>
          /\ \A n \in 1..Len(sent) : sent[n][1].mint # mintKeypair
    /\ (fn \in LibFunctions \ {"createToken"}) => mintKeypair \notin uploads

C21_Witness ==
    /\ fn = "createToken"
    /\ pc = "confirm"
    /\ mintKeypair \in uploads
    /\ sent[Len(sent)][3].uri = UploadedUri(mintKeypair)

C23_AbsentAccountIsNoError ==
    /\ [](tool = "freeze" => (~accountInfo.exists => ~accountInfo.frozen))
    /\ [][/\ \A f \in accountFetches \ accountFetches' :
               (tool = "freeze" /\ ~AccountOnLedger(f[1], f[2]).exists) =>
                  /\ accountInfo' = [some |-> TRUE, exists |-> FALSE, frozen |-> FALSE]
                  /\ error' = error
          /\ \A a \in (tokenFetches \ tokenFetches') \cap MintAddrs :
               (/\ tool = "burn"
                /\ ~ledgerAccounts[<<a, publicKey>>].exists
                /\ tokenInfo'.some) =>
                   (userBalanceRaw' = 0 /\ error' = "")]_vars

C23_Witness ==
    /\ tool = "freeze"
    /\ accountInfo = [some |-> TRUE, exists |-> FALSE, frozen |-> FALSE]
    /\ toolForm.tokenAddress \in MintAddrs
    /\ toolForm.targetAddress \in Owners
    /\ ~AccountOnLedger(toolForm.tokenAddress, toolForm.targetAddress).exists
    /\ accountFetches = {}
    /\ error = ""

C23_BurnWitness ==
    /\ tool = "burn"
    /\ tokenInfo.some
    /\ tokenInfo.address = "MintB"
    /\ ~ledgerAccounts[<<"MintB", publicKey>>].exists
    /\ userBalanceRaw = 0
    /\ error = ""

\* C24: token-info resolution is last-request-wins: once every fetchTokenInfo
\* that was started has settled, a tokenInfo that is set describes the
\* address that is in the form, whatever the order of the responses, so a
\* form that passes validation is never submitted next to the tokenInfo of
\* another address.
C24_LastRequestWins ==
    (/\ tool # "none"
     /\ tokenFetches = {}
     /\ tokenInfo.some
     /\ toolForm.tokenAddress \in ValidAddrs) =>
        tokenInfo.address = toolForm.tokenAddress


\* C25: a create submission goes on to the create call (setIsCreating(true),
\* createToken or createUltraCheapToken) only out of a balance read: every
\* handler that reaches the create call was awaiting connection.getBalance
\* for a fee estimate that is a number other than null.
C25_BalanceCheckedBeforeCreate ==
    [][\A h \in handlers' \ handlers :
          h.stage = "prepare" =>
             \E g \in handlers : g.id = h.id /\ g.stage = "getBalance"]_vars


\* C26: in the token creators loadingFee is true whenever an estimator call
\* is in flight, so the create button is never enabled while an estimation
\* is still pending, also when several calls overlap.
C26_LoadingWhileEstimating ==
    estimatesInFlight # {} => (loadingFee /\ ~CreateButtonEnabled)


\* C27: every Burn or MintTo of the burn and mint tools carries a raw amount
\* of at least 1: the amount the handler computes for a form-valid amount
\* and the token's decimals, and hands to the instruction, is never 0.
C27_RawAmountAtLeastOne ==
    (calc.op \in {"mint", "burn"} /\ calc.done) => calc.value # Bits(0)


\* C28: for every create request the form validation accepts, the MintTo
\* amount supply * 10^decimals that createToken or createUltraCheapToken
\* computes fits an unsigned 64-bit integer.
C28_SupplyAmountFitsU64 ==
    (calc.op = "create" /\ calc.done) =>
        (FitsU64(calc.value) /\ FitsU64(TimesPow10(calc.n, calc.decimals)))


\* onSubmit's validation of request d against the account state info lets
\* the request through.
PassesAccountCheck(d, info) ==
    \/ ~info.some
    \/ d.action = "freeze" /\ ~(info.exists /\ info.frozen)
    \/ d.action = "unfreeze" /\ info.exists /\ info.frozen

\* C29: when onSubmit of the freeze tool ends after a freeze it reports as
\* confirmed, the target's account being frozen on the ledger, the account
\* state it leaves makes the same request again be rejected by the
\* validation, before any transaction; likewise after a confirmed unfreeze;
\* whatever the refresh read returned.
C29_RepeatRejectedAfterConfirm ==
    [][(/\ tool = "freeze"
        /\ handler.stage \in {"confirm", "refresh"}
        /\ handler'.stage = "idle"
        /\ toolResult'
        /\ AccountOnLedger(handler.data.tokenAddress,
                           handler.data.targetAddress).exists
        /\ AccountOnLedger(handler.data.tokenAddress,
                           handler.data.targetAddress).frozen
              = (handler.data.action = "freeze")) =>
            ~PassesAccountCheck(handler.data, accountInfo')]_vars


\* The keys of the objects the request has written, in the order written.
WrittenKeys == [i \in 1..Len(upload.written) |-> upload.written[i].key]

\* C30: the upload endpoint is all-or-nothing: a request answered with an
\* error has written no object under tokens/<mintId>/; a request answered
\* with success has written metadata.json, and the image when one was
\* supplied, the image before the metadata that references it.
C30_UploadAllOrNothing ==
    upload.pc = "done" =>
        IF upload.response.status = 200
        THEN /\ WrittenKeys[Len(WrittenKeys)] = MetadataFileName(upload.req.mintId)
             /\ upload.req.image.some =>
                  /\ WrittenKeys = <<ImageFileName(upload.req.mintId,
                                                   upload.req.image.type),
                                     MetadataFileName(upload.req.mintId)>>
                  /\ upload.written[2].body.image = PublicUrl(WrittenKeys[1])
        ELSE upload.written = <<>>


\* ------------------------------------------------ claims on the library

\* An instruction as the plan names it: its type, and for SetAuthority the
\* authority kind and the new authority.
Descriptor(ix) ==
    IF ix.type = "SetAuthority"
    THEN <<ix.type, ix.kind, ix.newAuthority>>
    ELSE <<ix.type>>

PlanOf(tx) == [i \in 1..Len(tx) |-> Descriptor(tx[i])]

ExpectedCreateTokenPlan(d) ==
    << <<"CreateAccount">>, <<"InitializeMint">>, <<"CreateMetadata">>,
       <<"CreateAssociatedAccount">>, <<"MintTo">> >>
    \o (IF d.revokeMintAuthority
        THEN << <<"SetAuthority", "MintTokens", "null">> >> ELSE <<>>)
    \o (IF d.revokeFreezeAuthority
        THEN << <<"SetAuthority", "FreezeAccount", "null">> >> ELSE <<>>)

\* C1: whatever the decimals, supply and revoke flags, the transaction that
\* createToken assembles and hands to sendTransaction is CreateAccount,
\* InitializeMint, CreateMetadata, CreateAssociatedAccount, MintTo, then
\* SetAuthority(Mint, null) iff revokeMintAuthority, then
\* SetAuthority(Freeze, null) iff revokeFreezeAuthority, and nothing else.
C1_CreateTokenPlan ==
    (fn = "createToken" /\ pc \in {"send", "confirm"}) =>
        /\ PlanOf(transaction) = ExpectedCreateTokenPlan(data)
        /\ transaction[1].mint = mintKeypair
        /\ pc = "confirm" => sent[Len(sent)] = transaction

C1_Witness ==
    /\ fn = "createToken"
    /\ pc = "confirm"
    /\ data.revokeMintAuthority
    /\ data.revokeFreezeAuthority
    /\ Len(sent[Len(sent)]) = 7

\* The transaction the submission function assembles for the request the
\* estimator was given (same mint, same rent), with the uploaded URI.
SubmissionFor(f, d, mint, rent) ==
    IF f = "estimateCreateTokenFee"
    THEN CreateTokenTransaction(d, mint, rent, UploadedUri(mint))
    ELSE UltraCheapTransaction(d, mint, rent)

SameButPlaceholder(est, sub) ==
    IF est.type = "CreateMetadata"
    THEN sub.type = "CreateMetadata" /\ [est EXCEPT !.uri = sub.uri] = sub
    ELSE est = sub

\* C2: the transaction an estimator assembles has, position by position,
\* the instruction types of the transaction the submission function
\* assembles for the same request, and differs from it only in the
\* placeholder metadata URI.
C2_EstimateSubmitParity ==
    (fn \in Estimators /\ transaction # <<>>) =>
        LET sub == SubmissionFor(fn, data, mintKeypair, mintRent.v)
        IN /\ Types(transaction) = Types(sub)
           /\ \A i \in 1..Len(sub) : SameButPlaceholder(transaction[i], sub[i])

C2_Witness ==
    /\ fn = "estimateCreateTokenFee"
    /\ pc = "done"
    /\ ret.kind = "ok"
    /\ data.revokeMintAuthority
    /\ data.revokeFreezeAuthority
    /\ Len(transaction) = 7

\* C3: for every input, revoke flags included, the transaction that
\* createUltraCheapToken assembles and sends is CreateAccount, InitializeMint
\* with the requester as mint and freeze authority,
\* CreateAssociatedAccount(requester), MintTo, and no metadata is uploaded
\* for its mint.
C3_UltraCheapPlan ==
    (fn = "createUltraCheapToken" /\ pc \in {"send", "confirm"}) =>
        /\ PlanOf(transaction) =
             << <<"CreateAccount">>, <<"InitializeMint">>,
                <<"CreateAssociatedAccount">>, <<"MintTo">> >>
        /\ transaction[2].mintAuthority = publicKey
        /\ transaction[2].freezeAuthority = publicKey
        /\ transaction[3].owner = publicKey
        /\ mintKeypair \notin uploads
        /\ pc = "confirm" => sent[Len(sent)] = transaction

C3_Witness ==
    /\ fn = "createUltraCheapToken"
    /\ pc = "confirm"
    /\ data.revokeMintAuthority
    /\ data.revokeFreezeAuthority
    /\ Len(sent[Len(sent)]) = 4

\* C4: an estimator that returns a number was given every component of it
\* by the ledger: the rent figures and the network fee.
C4_NoPartialEstimate ==
    (fn \in Estimators /\ ret.kind = "ok") =>
        /\ mintRent.some
        /\ tokenAccountRent.some
        /\ fn = "estimateCreateTokenFee" => metadataAccountRent.some
        /\ feeValue.some

====
